---- MODULE Spec2Model ----
(***************************************************************************)
(* Workout generation engine of app/services/workout_generator_1.py:       *)
(* WorkoutHistoryManager (usage history, saved workouts) and               *)
(* WorkoutGenerator (weekly plan, cascade fallback, scorer, volume/rest    *)
(* adaptation), with the tables of app/core/constants.py.                  *)
(*                                                                         *)
(* Numbers: scores are kept exactly as integers, in thousandths times the  *)
(* square of the length of the recent-usage list (see ScaledScore); the    *)
(* duration percentages are integer percent.  Strings are TLA+ strings,    *)
(* read character by character with SubSeq.                                *)
(***************************************************************************)
EXTENDS Integers, Sequences, FiniteSets, TLC

(***************************************************************************)
(* Bounds of the model                                                     *)
(***************************************************************************)
\* number of generator seeds the random stream is started from
MaxSeed == 2
\* a store fault hits at most the MaxFaultNth-th call of its kind
MaxFaultNth == 3
\* largest requested day duration of the duration-allocation specification
MaxDuration == 130
\* longest recent-usage list of the scorer specification
MaxRecent == 6
MaxPool == 6
MaxRuns == 2
MaxWorkouts == 4
MaxMinExercises == 10

(***************************************************************************)
(* Strings                                                                 *)
(***************************************************************************)
Max(a, b) == IF a >= b THEN a ELSE b
Min(a, b) == IF a <= b THEN a ELSE b

RECURSIVE SeqSum(_)
SeqSum(s) == IF s = <<>> THEN 0 ELSE Head(s) + SeqSum(Tail(s))

Range(s) == {s[i] : i \in DOMAIN s}


UpperToLower ==
  [c \in {"A","B","C","D","E","F","G","H","I","J","K","L","M","N","O","P",
          "Q","R","S","T","U","V","W","X","Y","Z"} |->
     CASE c = "A" -> "a" [] c = "B" -> "b" [] c = "C" -> "c" [] c = "D" -> "d"
       [] c = "E" -> "e" [] c = "F" -> "f" [] c = "G" -> "g" [] c = "H" -> "h"
       [] c = "I" -> "i" [] c = "J" -> "j" [] c = "K" -> "k" [] c = "L" -> "l"
       [] c = "M" -> "m" [] c = "N" -> "n" [] c = "O" -> "o" [] c = "P" -> "p"
       [] c = "Q" -> "q" [] c = "R" -> "r" [] c = "S" -> "s" [] c = "T" -> "t"
       [] c = "U" -> "u" [] c = "V" -> "v" [] c = "W" -> "w" [] c = "X" -> "x"
       [] c = "Y" -> "y" [] c = "Z" -> "z"]

LowerChars == {"a","b","c","d","e","f","g","h","i","j","k","l","m","n","o","p",
               "q","r","s","t","u","v","w","x","y","z"}
DigitChars == {"0","1","2","3","4","5","6","7","8","9"}

CharAt(s, i) == SubSeq(s, i, i)

\* str.lower()
RECURSIVE LowerFrom(_, _)
LowerFrom(s, i) ==
  IF i > Len(s) THEN ""
  ELSE LET c == CharAt(s, i)
       IN  (IF c \in DOMAIN UpperToLower THEN UpperToLower[c] ELSE c)
             \o LowerFrom(s, i + 1)
Lower(s) == LowerFrom(s, 1)

\* str.replace(' ', '-')
RECURSIVE DashFrom(_, _)
DashFrom(s, i) ==
  IF i > Len(s) THEN ""
  ELSE (IF CharAt(s, i) = " " THEN "-" ELSE CharAt(s, i)) \o DashFrom(s, i + 1)
SpacesToDashes(s) == DashFrom(s, 1)

\* str.replace('[^a-z0-9-]', '', regex=True)
RECURSIVE StripFrom(_, _)
StripFrom(s, i) ==
  IF i > Len(s) THEN ""
  ELSE LET c == CharAt(s, i)
       IN  (IF c \in LowerChars \cup DigitChars \cup {"-"} THEN c ELSE "")
             \o StripFrom(s, i + 1)

\* k in s  (substring test)
Contains(s, k) ==
  \E i \in 1..(Len(s) - Len(k) + 1) : SubSeq(s, i, i + Len(k) - 1) = k

\* the id the import gives an exercise
IdClean(title) == StripFrom(SpacesToDashes(Lower(title)), 1)

\* the id the generator derives for a record that carries no exercise_id_clean
TitleId(title) == SpacesToDashes(Lower(title))

(***************************************************************************)
(* Tables of app/core/constants.py                                         *)
(***************************************************************************)
BMI_SAFETY_BLACKLIST_KEYWORDS ==
  [severe_obese |-> <<"jump", "jumping", "sprint", "sprinting", "burpee",
                      "box jump", "box-jump", "plyometric", "high-impact",
                      "running", "hiit">>,
   obese |-> <<"jump", "jumping", "sprint", "sprinting", "burpee", "box jump",
               "box-jump", "plyometric", "high-impact", "running">>,
   severe_underweight |-> <<"heavy lifting", "max strength", "powerlifting",
                            "1rm", "one-rep max">>,
   moderate_underweight |-> <<"heavy lifting", "max strength", "powerlifting",
                              "1rm">>]

BMI_RPE_CAPS ==
  [severe_obese |-> 7, obese |-> 8, overweight |-> 9, normal |-> 10,
   mild_underweight |-> 9, moderate_underweight |-> 8, severe_underweight |-> 7]

INJURY_CONTRAINDICATIONS ==
  [lower_back |-> <<"deadlift", "good morning", "goodmorning", "hyperextension",
                    "heavy squat", "back extension">>,
   knee |-> <<"deep squat", "lunge", "leg press", "running", "jump", "pistol",
              "bulgarian">>,
   shoulder |-> <<"overhead press", "military press", "handstand", "dip",
                  "snatch", "jerk", "upright row">>,
   wrist |-> <<"push-up", "pushup", "plank", "handstand", "front rack",
               "heavy press">>,
   ankle |-> <<"running", "jump", "calf raise", "box jump", "sprint">>,
   hip |-> <<"deep squat", "sumo", "wide stance", "split">>,
   elbow |-> <<"tricep extension", "overhead", "heavy curl", "close-grip",
               "dip">>,
   neck |-> <<"overhead", "heavy shrug", "upright row">>]

DAYS_OF_WEEK ==
  <<"monday", "tuesday", "wednesday", "thursday", "friday", "saturday", "sunday">>

\* percent of the day's duration
DURATION_ALLOCATION == [warmup |-> 15, cooldown |-> 10, main |-> 75]

\* <<min, max, count>>: min <= duration < max
EXERCISE_COUNT_BY_DURATION ==
  << <<0, 20, 3>>, <<20, 30, 4>>, <<30, 45, 5>>, <<45, 60, 6>>, <<60, 90, 8>>,
     <<90, 999, 10>> >>

SETS_REPS_RANGES ==
  [Beginner |->
     [weight_loss |-> [sets |-> <<2, 3>>, reps |-> <<12, 15>>],
      muscle_gain |-> [sets |-> <<3, 4>>, reps |-> <<8, 12>>],
      strength |-> [sets |-> <<3, 4>>, reps |-> <<5, 8>>],
      endurance |-> [sets |-> <<2, 3>>, reps |-> <<15, 20>>],
      general_fitness |-> [sets |-> <<2, 3>>, reps |-> <<10, 15>>],
      athletic |-> [sets |-> <<3, 4>>, reps |-> <<6, 10>>]],
   Intermediate |->
     [weight_loss |-> [sets |-> <<3, 4>>, reps |-> <<12, 15>>],
      muscle_gain |-> [sets |-> <<3, 5>>, reps |-> <<8, 12>>],
      strength |-> [sets |-> <<4, 5>>, reps |-> <<4, 6>>],
      endurance |-> [sets |-> <<3, 4>>, reps |-> <<15, 20>>],
      general_fitness |-> [sets |-> <<3, 4>>, reps |-> <<10, 12>>],
      athletic |-> [sets |-> <<4, 5>>, reps |-> <<5, 8>>]],
   Expert |->
     [weight_loss |-> [sets |-> <<4, 5>>, reps |-> <<12, 15>>],
      muscle_gain |-> [sets |-> <<4, 6>>, reps |-> <<6, 12>>],
      strength |-> [sets |-> <<5, 6>>, reps |-> <<3, 5>>],
      endurance |-> [sets |-> <<4, 5>>, reps |-> <<15, 25>>],
      general_fitness |-> [sets |-> <<4, 5>>, reps |-> <<10, 12>>],
      athletic |-> [sets |-> <<5, 6>>, reps |-> <<4, 8>>]]]

REST_PERIODS ==
  [Beginner |-> [strength |-> 120, hypertrophy |-> 60, endurance |-> 45],
   Intermediate |-> [strength |-> 150, hypertrophy |-> 90, endurance |-> 60],
   Expert |-> [strength |-> 180, hypertrophy |-> 90, endurance |-> 60]]

CASCADE_FALLBACK_LEVELS ==
  <<"perfect", "equipment_relaxed", "difficulty_relaxed", "related_goals",
    "bmi_relaxed", "emergency_bodyweight">>

(***************************************************************************)
(* The exercise catalog (db.exercises)                                     *)
(***************************************************************************)
\* a catalog document as import_exercises.py stores it
Doc(title, desc, body_part, equipment, level, active) ==
  [Title |-> title, Desc |-> desc, BodyPart |-> body_part,
   Equipment |-> equipment, Level |-> level,
   exercise_id_clean |-> IdClean(title), is_active |-> active]

\* the documents catalogs are made of, in insertion order
Universe ==
  << Doc("Glute Bridge", "Lie on your back and lift the hips", "Glutes", "Bodyweight", "Beginner", TRUE),
     Doc("Wall Sit", "Hold a seated position against a wall", "Quadriceps", "Bodyweight", "Beginner", TRUE),
     Doc("Bird Dog", "Extend opposite arm and leg", "Abdominals", "Bodyweight", "Beginner", TRUE),
     Doc("Crunches", "Curl the shoulders towards the hips", "Abdominals", "Bodyweight", "Beginner", TRUE),
     Doc("Push-Up", "Lower the chest to the floor", "Chest", "Bodyweight", "Beginner", TRUE),
     Doc("Plank", "Hold a straight line on the forearms", "Abdominals", "Bodyweight", "Beginner", TRUE),
     Doc("Bodyweight Squat", "Sit back and stand up", "Quadriceps", "Bodyweight", "Beginner", TRUE),
     Doc("Superman", "Lift arms and legs off the floor", "Lower Back", "Bodyweight", "Beginner", TRUE),
     Doc("Calf Raise", "Rise on the toes", "Calves", "Bodyweight", "Beginner", TRUE),
     Doc("Squat Thrust", "Kick the feet back and finish with a small jump", "Quadriceps", "Bodyweight", "Beginner", TRUE),
     Doc("Jumping Jacks", "Hop the feet apart and together", "Quadriceps", "Bodyweight", "Beginner", TRUE),
     Doc("Burpee", "Drop to the floor and get up again", "Chest", "Bodyweight", "Beginner", TRUE),
     Doc("Side Bend", "Retired from the catalog", "Abdominals", "Bodyweight", "Beginner", FALSE),
     Doc("Dumbbell Curl", "Curl the weights to the shoulders", "Biceps", "Dumbbell", "Beginner", TRUE),
     Doc("Goblet Squat", "Squat holding one weight at the chest", "Quadriceps", "Dumbbell", "Beginner", TRUE),
     Doc("Dumbbell Lunge", "Step forward holding the weights", "Quadriceps", "Dumbbell", "Intermediate", TRUE),
     Doc("Mountain Climber", "Drive the knees in a plank position", "Abdominals", "Bodyweight", "Intermediate", TRUE),
     Doc("Pistol Squat", "Squat on one leg", "Quadriceps", "Bodyweight", "Intermediate", TRUE),
     Doc("Barbell Deadlift", "Lift the bar from the floor", "Hamstrings", "Barbell", "Intermediate", TRUE),
     Doc("Overhead Press", "Press the bar over the head", "Shoulders", "Barbell", "Intermediate", TRUE),
     Doc("Barbell Row", "Row the bar to the waist", "Back", "Barbell", "Expert", TRUE),
     Doc("Dumbbell Row", "Row one weight to the hip", "Back", "Dumbbell", "Intermediate", TRUE),
     Doc("Bench Press", "Press the bar from the chest", "Chest", "Barbell", "Intermediate", TRUE) >>

\* _get_hardcoded_fallback: records without Desc or is_active
HardcodedFallback ==
  << [Title |-> "Push-ups", BodyPart |-> "Chest", Equipment |-> "Bodyweight",
      Level |-> "Beginner", exercise_id_clean |-> "pushups"],
     [Title |-> "Bodyweight Squats", BodyPart |-> "Legs", Equipment |-> "Bodyweight",
      Level |-> "Beginner", exercise_id_clean |-> "squats"],
     [Title |-> "Plank", BodyPart |-> "Core", Equipment |-> "Bodyweight",
      Level |-> "Beginner", exercise_id_clean |-> "plank"],
     [Title |-> "Lunges", BodyPart |-> "Legs", Equipment |-> "Bodyweight",
      Level |-> "Beginner", exercise_id_clean |-> "lunges"],
     [Title |-> "Mountain Climbers", BodyPart |-> "Core", Equipment |-> "Bodyweight",
      Level |-> "Intermediate", exercise_id_clean |-> "mountain-climbers"] >>

\* ex.get(field, default)
GetOr(ex, field, default) == IF field \in DOMAIN ex THEN ex[field] ELSE default

\* the id of a plan slot: exercise_id_clean, else the id derived from the title
ExerciseId(ex) ==
  IF "exercise_id_clean" \in DOMAIN ex THEN ex.exercise_id_clean
  ELSE TitleId(GetOr(ex, "Title", ""))

(***************************************************************************)
(* Keyword matching.  The keyword tests of every title and description of  *)
(* the model are tabulated once; a test reads the table.                   *)
(***************************************************************************)
BmiCategories == DOMAIN BMI_RPE_CAPS
InjuryTypes == DOMAIN INJURY_CONTRAINDICATIONS

AllKeywords ==
  UNION {Range(BMI_SAFETY_BLACKLIST_KEYWORDS[c]) : c \in DOMAIN BMI_SAFETY_BLACKLIST_KEYWORDS}
  \cup UNION {Range(INJURY_CONTRAINDICATIONS[i]) : i \in InjuryTypes}

AllTexts ==
  {Universe[i].Title : i \in DOMAIN Universe}
  \cup {Universe[i].Desc : i \in DOMAIN Universe}
  \cup {HardcodedFallback[i].Title : i \in DOMAIN HardcodedFallback}
  \cup {""}

\* the keywords a text contains, case-insensitively
KeywordHits ==
  [t \in AllTexts |-> {k \in AllKeywords : Contains(Lower(t), Lower(k))}]

\* re.search("k1|k2|...", text, IGNORECASE): the keywords hold no metacharacter
RegexSearchI(keywords, text) == KeywordHits[text] \cap Range(keywords) # {}

\* BMI_SAFETY_BLACKLIST_KEYWORDS.get(bmi_category, [])
Blacklist(bmi_category) ==
  IF bmi_category \in DOMAIN BMI_SAFETY_BLACKLIST_KEYWORDS
  THEN BMI_SAFETY_BLACKLIST_KEYWORDS[bmi_category] ELSE <<>>

\* INJURY_CONTRAINDICATIONS.get(injury, [])
Contraindicated(injury) ==
  IF injury \in DOMAIN INJURY_CONTRAINDICATIONS
  THEN INJURY_CONTRAINDICATIONS[injury] ELSE <<>>

\* every contraindication keyword of the injuries, in the order the code adds them
RECURSIVE InjuryKeywords(_)
InjuryKeywords(injury_types) ==
  IF injury_types = <<>> THEN <<>>
  ELSE Contraindicated(Head(injury_types)) \o InjuryKeywords(Tail(injury_types))

(***************************************************************************)
(* Catalog queries (pymongo find on db.exercises)                          *)
(***************************************************************************)
NoTitleCond == [present |-> FALSE, has_nin |-> FALSE, nin |-> <<>>,
                has_not |-> FALSE, regex |-> <<>>]

\* the level-1 query without the exclusion of used ids: C4 fails of it
BaseQueryNoExclusion(fitness_level, equipment_list, excluded_exercise_ids) ==
  [has_id_nin |-> FALSE,
   id_nin |-> <<>>,
   Title |-> NoTitleCond,
   Level |-> {fitness_level},
   Equipment |-> Range(equipment_list)]

\* exclusion_query merged with Level, Equipment and is_active (level 1)
BaseQuery(fitness_level, equipment_list, excluded_exercise_ids) ==
  [has_id_nin |-> excluded_exercise_ids # <<>>,
   id_nin |-> excluded_exercise_ids,
   Title |-> IF excluded_exercise_ids # <<>>
             THEN [NoTitleCond EXCEPT !.present = TRUE, !.has_nin = TRUE,
                                      !.nin = excluded_exercise_ids]
             ELSE NoTitleCond,
   Level |-> {fitness_level},
   Equipment |-> Range(equipment_list)]

\* "Apply BMI safety filter": the blacklist joined into one $not $regex
WithBlacklist(query, blacklist) ==
  IF blacklist = <<>> THEN query
  ELSE IF query.Title.present
       THEN IF query.Title.has_not
            THEN [query EXCEPT !.Title.regex = @ \o blacklist]
            ELSE [query EXCEPT !.Title.has_not = TRUE, !.Title.regex = blacklist]
       ELSE [query EXCEPT !.Title = [NoTitleCond EXCEPT !.present = TRUE,
                                       !.has_not = TRUE, !.regex = blacklist]]

\* one contraindication keyword: appended to the $not $regex when there is
\* one, else the whole Title condition is replaced
WithKeyword(query, keyword) ==
  IF query.Title.present /\ query.Title.has_not
  THEN [query EXCEPT !.Title.regex = Append(@, keyword)]
  ELSE [query EXCEPT !.Title = [NoTitleCond EXCEPT !.present = TRUE,
                                  !.has_not = TRUE, !.regex = <<keyword>>]]

RECURSIVE WithKeywords(_, _)
WithKeywords(query, keywords) ==
  IF keywords = <<>> THEN query
  ELSE WithKeywords(WithKeyword(query, Head(keywords)), Tail(keywords))

\* the level-1 query of _apply_cascade_fallback
PerfectQuery(user_snapshot, excluded_exercise_ids) ==
  WithKeywords(
    WithBlacklist(BaseQuery(user_snapshot.fitness_level, user_snapshot.equipment_list,
                            excluded_exercise_ids),
                  Blacklist(user_snapshot.bmi_category)),
    InjuryKeywords(user_snapshot.injury_types))

\* level 2: query["Equipment"] = {"$in": equipment_list + ["Bodyweight", "Dumbbell"]}
RelaxEquipment(query, equipment_list) ==
  [query EXCEPT !.Equipment = Range(equipment_list) \cup {"Bodyweight", "Dumbbell"}]

LevelNum(level_name) ==
  CASE level_name = "Beginner" -> 1
    [] level_name = "Intermediate" -> 2
    [] level_name = "Expert" -> 3
    [] OTHER -> 2

\* level 3: the levels within one step of the user's
AdjacentLevels(fitness_level) ==
  {l \in {"Beginner", "Intermediate", "Expert"} :
     LevelNum(l) - LevelNum(fitness_level) \in {-1, 0, 1}}

RelaxDifficulty(query, fitness_level) ==
  [query EXCEPT !.Level = AdjacentLevels(fitness_level)]

\* level 5: query.pop("Title", None)
DropTitle(query) == [query EXCEPT !.Title = NoTitleCond]

\* the query of _get_emergency_exercises
EmergencyQuery(excluded_ids) ==
  [has_id_nin |-> excluded_ids # <<>>,
   id_nin |-> excluded_ids,
   Title |-> IF excluded_ids # <<>>
             THEN [NoTitleCond EXCEPT !.present = TRUE, !.has_nin = TRUE,
                                      !.nin = excluded_ids]
             ELSE NoTitleCond,
   Level |-> {"Beginner", "Intermediate"},
   Equipment |-> {"Bodyweight"}]

\* whether a catalog document satisfies a query
Matches(doc, query) ==
  /\ doc.is_active
  /\ doc.Level \in query.Level
  /\ doc.Equipment \in query.Equipment
  /\ query.has_id_nin => doc.exercise_id_clean \notin Range(query.id_nin)
  /\ (query.Title.present /\ query.Title.has_nin) => doc.Title \notin Range(query.Title.nin)
  /\ (query.Title.present /\ query.Title.has_not) =>
        ~RegexSearchI(query.Title.regex, doc.Title)

\* cursor.limit(n): 0 means no limit
Limit(docs, n) == IF n = 0 \/ Len(docs) <= n THEN docs ELSE SubSeq(docs, 1, n)

\* list(exercises_coll.find(query).limit(n)), in the collection's insertion order
Find(coll, query, n) ==
  LET Hit(doc) == Matches(doc, query) IN Limit(SelectSeq(coll, Hit), n)

(***************************************************************************)
(* ExerciseFilter (app/services/exercise_filter.py)                        *)
(***************************************************************************)
RELATED_GOALS ==
  [weight_loss |-> <<"endurance", "general_fitness">>,
   muscle_gain |-> <<"strength", "general_fitness">>,
   strength |-> <<"muscle_gain", "athletic">>,
   endurance |-> <<"weight_loss", "general_fitness">>,
   general_fitness |-> <<"weight_loss", "endurance">>,
   athletic |-> <<"strength", "muscle_gain">>]

EQUIPMENT_HIERARCHY ==
  [Barbell |-> <<"Dumbbell", "Kettlebells", "Bodyweight">>,
   Dumbbell |-> <<"Kettlebells", "Bodyweight">>,
   Kettlebells |-> <<"Dumbbell", "Bodyweight">>,
   Machine |-> <<"Cable", "Dumbbell", "Bodyweight">>,
   Cable |-> <<"Bands", "Dumbbell", "Bodyweight">>,
   Bands |-> <<"Bodyweight">>]
  @@ ("Medicine Ball" :> <<"Dumbbell", "Bodyweight">>)
  @@ ("Exercise Ball" :> <<"Bodyweight">>)
  @@ ("Other" :> <<"Bodyweight">>)

\* the keyword test on the title alone: C25 fails of it
FilterForSafetyByTitle(candidates, bmi_category, injury_types) ==
  LET keywords == Blacklist(bmi_category) \o InjuryKeywords(injury_types)
      IsSafe(exercise) == ~RegexSearchI(keywords, GetOr(exercise, "Title", ""))
  IN  SelectSeq(candidates, IsSafe)

\* filter_for_safety: keyword in title_lower or keyword in desc_lower, for the
\* blacklist of the BMI category and then the keywords of every injury; the
\* keywords of the tables are lower case
FilterForSafety(candidates, bmi_category, injury_types) ==
  LET Hit(exercise, keywords) ==
        \/ RegexSearchI(keywords, GetOr(exercise, "Title", ""))
        \/ RegexSearchI(keywords, GetOr(exercise, "Desc", ""))
      IsSafe(exercise) == /\ ~Hit(exercise, Blacklist(bmi_category))
                          /\ ~Hit(exercise, InjuryKeywords(injury_types))
  IN  SelectSeq(candidates, IsSafe)

\* query_candidate_exercises without a body part: the goal is not part of the
\* query; is_bodyweight is Equipment == 'Bodyweight' (import_exercises.py)
QueryCandidateExercises(coll, equipment_list, goal) ==
  LET Hit(doc) ==
        /\ doc.is_active
        /\ IF equipment_list # <<>>
           THEN doc.Equipment \in Range(equipment_list) \/ doc.Equipment = "Bodyweight"
           ELSE doc.Equipment = "Bodyweight"
  IN  Limit(SelectSeq(coll, Hit), 1000)

\* expanded_equipment of level 2
RECURSIVE ExpandedEquipment(_)
ExpandedEquipment(equipment_list) ==
  IF equipment_list = <<>> THEN <<>>
  ELSE <<Head(equipment_list)>>
       \o (IF Head(equipment_list) \in DOMAIN EQUIPMENT_HIERARCHY
           THEN EQUIPMENT_HIERARCHY[Head(equipment_list)] ELSE <<>>)
       \o ExpandedEquipment(Tail(equipment_list))

\* all_goal_candidates of level 4: the candidates of every related goal, extended
RECURSIVE AllGoalCandidates(_, _, _)
AllGoalCandidates(coll, equipment_list, related_goals) ==
  IF related_goals = <<>> THEN <<>>
  ELSE QueryCandidateExercises(coll, equipment_list, Head(related_goals))
       \o AllGoalCandidates(coll, equipment_list, Tail(related_goals))

\* the returns of apply_cascade_fallback: the first level that holds
\* min_exercises, with its label; level 3 repeats the query of level 2;
\* level 5 is taken only for a BMI category that has a blacklist
FirstSufficient(level1, level2, level4, level5, level6, bmi_category, min_exercises) ==
  IF Len(level1) >= min_exercises
  THEN [exercises |-> level1, fallback_level |-> "perfect_match"]
  ELSE IF Len(level2) >= min_exercises
  THEN [exercises |-> level2, fallback_level |-> "relax_equipment"]
  ELSE IF Len(level2) >= min_exercises
  THEN [exercises |-> level2, fallback_level |-> "relax_difficulty"]
  ELSE IF Len(level4) >= min_exercises
  THEN [exercises |-> level4, fallback_level |-> "relax_goal"]
  ELSE IF bmi_category \in DOMAIN BMI_SAFETY_BLACKLIST_KEYWORDS
          /\ Len(level5) >= min_exercises
  THEN [exercises |-> level5, fallback_level |-> "relax_bmi_safety"]
  ELSE [exercises |-> level6, fallback_level |-> "fallback_default"]

\* ExerciseFilter.apply_cascade_fallback without a body part, for a profile
\* without allow_auto_relaxation (it defaults to True)
ApplyCascadeFallback(coll, user_profile, min_exercises) ==
  LET goal == user_profile.primary_goal
      bmi_category == user_profile.bmi_category
      injury_types == user_profile.injury_types
      expanded_equipment == ExpandedEquipment(user_profile.equipment_list)
      related_goals == IF goal \in DOMAIN RELATED_GOALS THEN RELATED_GOALS[goal]
                       ELSE <<"general_fitness">>
      all_goal_candidates == AllGoalCandidates(coll, expanded_equipment, related_goals)
      Bodyweight(doc) == doc.is_active /\ doc.Equipment = "Bodyweight"
  IN  FirstSufficient(
        FilterForSafety(QueryCandidateExercises(coll, user_profile.equipment_list, goal),
                        bmi_category, injury_types),
        FilterForSafety(QueryCandidateExercises(coll, expanded_equipment, goal),
                        bmi_category, injury_types),
        FilterForSafety(all_goal_candidates, bmi_category, injury_types),
        Limit(all_goal_candidates, min_exercises * 3),
        Limit(SelectSeq(coll, Bodyweight), min_exercises * 2),
        bmi_category, min_exercises)

(***************************************************************************)
(* The random generator.  Python's generator is a deterministic stream     *)
(* from its seed state; the stream is modelled by a 16-bit linear          *)
(* congruential generator, and the seed is an input.                       *)
(***************************************************************************)
RngNext(x) == (x * 25173 + 13849) % 65536

\* the k generator states that follow x
RECURSIVE RngStates(_, _)
RngStates(x, k) ==
  IF k = 0 THEN <<>> ELSE <<RngNext(x)>> \o RngStates(RngNext(x), k - 1)

\* the generator state after k draws
RECURSIVE RngAfter(_, _)
RngAfter(x, k) == IF k = 0 THEN x ELSE RngAfter(RngNext(x), k - 1)

\* random.uniform(0, 0.05), in thousandths
JitterOf(x) == (x \div 16) % 50

\* random.randint(lo, hi)
RandInt(x, lo, hi) == lo + ((x \div 16) % (hi - lo + 1))

(***************************************************************************)
(* Pure functions of WorkoutGenerator                                      *)
(***************************************************************************)
\* int(duration * fraction), the fraction in percent: truncation towards zero
PercentOf(duration, percent) ==
  IF duration >= 0 THEN (duration * percent) \div 100
  ELSE -(((-duration) * percent) \div 100)

\* the warmup without its floor of 5 minutes: C5 fails of it
WarmupNoFloor(duration) == PercentOf(duration, DURATION_ALLOCATION.warmup)

\* lines 346-349
WarmupDuration(duration) == Max(5, PercentOf(duration, DURATION_ALLOCATION.warmup))
CooldownDuration(duration) == Max(3, PercentOf(duration, DURATION_ALLOCATION.cooldown))
MainDuration(duration) == duration - WarmupDuration(duration) - CooldownDuration(duration)

\* _get_exercise_count: the first bucket that holds the duration, else 5
RECURSIVE CountFrom(_, _)
CountFrom(buckets, duration) ==
  IF buckets = <<>> THEN 5
  ELSE IF Head(buckets)[1] <= duration /\ duration < Head(buckets)[2]
       THEN Head(buckets)[3]
       ELSE CountFrom(Tail(buckets), duration)
GetExerciseCount(duration) == CountFrom(EXERCISE_COUNT_BY_DURATION, duration)

\* the score of _score_and_select_exercises, times 1000 * den * den, where
\* recency scores are num/den (den the length of the recent-usage list):
\*   1.0 - recency^2 * 0.8 + 0.2 [preferred body part] + 0.15 [equipment]
\*       + satisfaction * 0.1 + jitter
\* jitter in thousandths, body_part_satisfaction in hundredths
ScaledScore(ex, user_snapshot, recency_map, user_preferences, jitter, den) ==
  LET ex_id == ExerciseId(ex)
      ex_body_part == Lower(GetOr(ex, "BodyPart", ""))
      penalty == IF ex_id \in DOMAIN recency_map
                 THEN 800 * recency_map[ex_id].num * recency_map[ex_id].num
                 ELSE 0
      pref == IF ex_body_part \in Range(user_preferences.preferred_body_parts)
              THEN 200 ELSE 0
      equip == IF GetOr(ex, "Equipment", "") \in Range(user_snapshot.equipment_list)
               THEN 150 ELSE 0
      satisfaction ==
        IF ex_body_part \in DOMAIN user_preferences.body_part_satisfaction
        THEN user_preferences.body_part_satisfaction[ex_body_part] ELSE 0
  IN  den * den * (1000 + pref + equip + satisfaction + jitter) - penalty

\* scored.sort(key=score, reverse=True): stable, equal scores keep their order
RECURSIVE InsertDesc(_, _)
InsertDesc(sorted, item) ==
  IF sorted = <<>> THEN <<item>>
  ELSE IF Head(sorted).score >= item.score
       THEN <<Head(sorted)>> \o InsertDesc(Tail(sorted), item)
       ELSE <<item>> \o sorted

RECURSIVE SortDesc(_)
SortDesc(scored) ==
  IF scored = <<>> THEN <<>>
  ELSE InsertDesc(SortDesc(SubSeq(scored, 1, Len(scored) - 1)), scored[Len(scored)])

\* the first pass with a cap of 3 for a body part: C13 fails of it
RECURSIVE SelectCappedAtThree(_, _, _)
SelectCappedAtThree(scored, selected, count) ==
  IF scored = <<>> \/ Len(selected) >= count THEN selected
  ELSE LET ex == Head(scored).ex
           body_part == Lower(GetOr(ex, "BodyPart", ""))
           bp_count == Cardinality({i \in DOMAIN selected :
                          Lower(GetOr(selected[i], "BodyPart", "")) = body_part})
       IN  SelectCappedAtThree(Tail(scored),
                               IF bp_count < 3 THEN Append(selected, ex) ELSE selected,
                               count)

\* first pass: at most 2 exercises of a body part, until count are selected
RECURSIVE SelectCapped(_, _, _)
SelectCapped(scored, selected, count) ==
  IF scored = <<>> \/ Len(selected) >= count THEN selected
  ELSE LET ex == Head(scored).ex
           body_part == Lower(GetOr(ex, "BodyPart", ""))
           bp_count == Cardinality({i \in DOMAIN selected :
                          Lower(GetOr(selected[i], "BodyPart", "")) = body_part})
       IN  SelectCapped(Tail(scored),
                        IF bp_count < 2 THEN Append(selected, ex) ELSE selected,
                        count)

\* second pass ("relax body part constraint"): entered when selected is short
RECURSIVE SelectFill(_, _, _)
SelectFill(scored, selected, count) ==
  IF scored = <<>> THEN selected
  ELSE IF Head(scored).ex \notin Range(selected)
       THEN LET more == Append(selected, Head(scored).ex)
            IN  IF Len(more) >= count THEN more
                ELSE SelectFill(Tail(scored), more, count)
       ELSE SelectFill(Tail(scored), selected, count)

\* _score_and_select_exercises; jitters[i] is the draw for exercises[i]
ScoreAndSelect(exercises, user_snapshot, recency_map, user_preferences, count, jitters, den) ==
  LET scored == [i \in DOMAIN exercises |->
                   [ex |-> exercises[i],
                    score |-> ScaledScore(exercises[i], user_snapshot, recency_map,
                                          user_preferences, jitters[i], den)]]
      sorted == SortDesc(scored)
      capped == SelectCapped(sorted, <<>>, count)
  IN  IF Len(capped) < count THEN SelectFill(sorted, capped, count) ELSE capped

\* SETS_REPS_RANGES.get(fitness_level, {}).get(goal, default)
BaseRanges(fitness_level, goal) ==
  IF fitness_level \in DOMAIN SETS_REPS_RANGES
     /\ goal \in DOMAIN SETS_REPS_RANGES[fitness_level]
  THEN SETS_REPS_RANGES[fitness_level][goal]
  ELSE [sets |-> <<3, 4>>, reps |-> <<10, 12>>]

\* the completion-rate adjustment without its ceiling of 6: C23 fails of it
AdaptedSetsNoCeiling(sets, rate) ==
  IF rate.num * 10 < 7 * rate.den THEN <<sets[1], sets[2] - 1>>
  ELSE IF rate.num * 100 > 95 * rate.den THEN <<sets[1], sets[2] + 1>>
  ELSE sets

\* the sets range after the completion-rate adjustment; the rate is num/den
AdaptedSets(sets, rate) ==
  IF rate.num * 10 < 7 * rate.den THEN <<sets[1], sets[2] - 1>>
  ELSE IF rate.num * 100 > 95 * rate.den THEN <<sets[1], Min(6, sets[2] + 1)>>
  ELSE sets

RestCategory(goal) ==
  IF goal = "muscle_gain" THEN "hypertrophy"
  ELSE IF goal = "strength" THEN "strength" ELSE "endurance"

\* REST_PERIODS.get(fitness_level, {}).get(rest_category, 60)
BaseRest(fitness_level, goal) ==
  IF fitness_level \in DOMAIN REST_PERIODS
  THEN REST_PERIODS[fitness_level][RestCategory(goal)] ELSE 60

\* the rest after the RPE adjustment; avg_rpe in tenths
AdaptedRest(rest_seconds, avg_rpe) ==
  IF avg_rpe > 85 THEN rest_seconds + 15
  ELSE IF avg_rpe < 60 THEN Max(30, rest_seconds - 15)
  ELSE rest_seconds

\* the cap alone, without base_rpe_max: C12 fails of it
RpeMaxUncapped(bmi_category) ==
  IF bmi_category \in DOMAIN BMI_RPE_CAPS THEN BMI_RPE_CAPS[bmi_category] ELSE 10

\* min(base_rpe_max, BMI_RPE_CAPS.get(bmi_category, 10))
RpeMax(bmi_category) ==
  Min(9, IF bmi_category \in DOMAIN BMI_RPE_CAPS THEN BMI_RPE_CAPS[bmi_category] ELSE 10)

\* _build_exercise_detail; x_sets and x_reps are the generator states of the
\* two randint draws
BuildExerciseDetail(exercise, user_snapshot, user_preferences, x_sets, x_reps) ==
  LET ranges == BaseRanges(user_snapshot.fitness_level, user_snapshot.primary_goal)
      sets_range == AdaptedSets(ranges.sets, user_preferences.avg_completion_rate)
  IN  [id |-> ExerciseId(exercise),
       name |-> GetOr(exercise, "Title", "Unknown Exercise"),
       body_part |-> GetOr(exercise, "BodyPart", ""),
       equipment_required |-> GetOr(exercise, "Equipment", "Bodyweight"),
       sets |-> RandInt(x_sets, sets_range[1], sets_range[2]),
       reps |-> RandInt(x_reps, ranges.reps[1], ranges.reps[2]),
       rest_seconds |-> AdaptedRest(BaseRest(user_snapshot.fitness_level,
                                             user_snapshot.primary_goal),
                                    user_preferences.avg_rpe),
       predicted_rpe_range |-> <<6, RpeMax(user_snapshot.bmi_category)>>]

\* the main exercises of a day: a detail per selected exercise, two draws each
BuildMain(selected, user_snapshot, user_preferences, x) ==
  LET xs == RngStates(x, 2 * Len(selected))
  IN  [i \in DOMAIN selected |->
         BuildExerciseDetail(selected[i], user_snapshot, user_preferences,
                             xs[2 * i - 1], xs[2 * i])]

\* _build_warmup
BuildWarmup(duration) ==
  << [id |-> "warmup_mobility", duration_secs |-> Min(120, duration \div 2)],
     [id |-> "warmup_cardio", duration_secs |-> Max(180, duration - 120)] >>

\* _build_cooldown
BuildCooldown(duration) ==
  << [id |-> "cooldown_stretch", duration_secs |-> duration] >>

\* _create_rest_day
CreateRestDay ==
  [target_duration |-> 0, warmup |-> <<>>, main |-> <<>>, cooldown |-> <<>>,
   motivation |-> "rest"]

\* _compute_motivation_score with no history_summary, as every caller passes
\* it, is 0.0: the "neutral" tier of _get_motivation_message, 8 messages
MotivationMessage(x) == <<"neutral", RandInt(x, 0, 7)>>

\* compute_bmi, in hundredths: round(weight_kg / (height_cm / 100) ** 2, 2)
ComputeBmi(weight_kg, height_cm) ==
  (weight_kg * 2000000 + height_cm * height_cm) \div (2 * height_cm * height_cm)

\* get_bmi_category (BMI_CATEGORIES); bmi in hundredths
GetBmiCategory(bmi) ==
  IF 0 <= bmi /\ bmi < 1600 THEN "severe_underweight"
  ELSE IF 1600 <= bmi /\ bmi < 1700 THEN "moderate_underweight"
  ELSE IF 1700 <= bmi /\ bmi < 1850 THEN "mild_underweight"
  ELSE IF 1850 <= bmi /\ bmi < 2500 THEN "normal"
  ELSE IF 2500 <= bmi /\ bmi < 3000 THEN "overweight"
  ELSE IF 3000 <= bmi /\ bmi < 3500 THEN "obese"
  ELSE IF 3500 <= bmi /\ bmi < 10000 THEN "severe_obese"
  ELSE "normal"

(***************************************************************************)
(* Pure functions of WorkoutHistoryManager                                 *)
(***************************************************************************)
\* sort("last_used", -1): insertion sort that keeps the stored order of
\* records with equal last_used
RECURSIVE InsertByLastUsed(_, _)
InsertByLastUsed(sorted, record) ==
  IF sorted = <<>> THEN <<record>>
  ELSE IF Head(sorted).last_used >= record.last_used
       THEN <<Head(sorted)>> \o InsertByLastUsed(Tail(sorted), record)
       ELSE <<record>> \o sorted

RECURSIVE SortByLastUsedDesc(_)
SortByLastUsedDesc(records) ==
  IF records = <<>> THEN <<>>
  ELSE InsertByLastUsed(SortByLastUsedDesc(SubSeq(records, 1, Len(records) - 1)),
                        records[Len(records)])

\* get_recent_exercise_ids: recency_score 1 - i/len is kept as num/den
GetRecentExerciseIds(history_coll, current_time, days) ==
  LET Recent(r) == r.last_used >= current_time - days
      history == Limit(SortByLastUsedDesc(SelectSeq(history_coll, Recent)), 100)
  IN  [i \in DOMAIN history |->
         [id |-> history[i].exercise_id,
          recency_score |-> [num |-> Len(history) - (i - 1), den |-> Len(history)],
          use_count |-> history[i].use_count,
          last_used |-> history[i].last_used]]

\* {ex["id"]: ex["recency_score"] for ex in recent_exercise_data}
RecencyMap(recent_exercise_data) ==
  [id \in {recent_exercise_data[i].id : i \in DOMAIN recent_exercise_data} |->
     LET last == CHOOSE i \in DOMAIN recent_exercise_data :
                   /\ recent_exercise_data[i].id = id
                   /\ \A j \in DOMAIN recent_exercise_data :
                        recent_exercise_data[j].id = id => j <= i
     IN  recent_exercise_data[last].recency_score]

\* _get_ml_user_preferences from the session logs read; completion_percent in
\* hundredths, the average kept as num/den
MlUserPreferences(logs) ==
  IF logs = <<>>
  THEN [avg_completion_rate |-> [num |-> 80, den |-> 100], avg_rpe |-> 70,
        preferred_body_parts |-> <<>>, body_part_satisfaction |-> <<>>]
  ELSE [avg_completion_rate |-> [num |-> SeqSum(logs), den |-> 100 * Len(logs)],
        avg_rpe |-> 70,
        preferred_body_parts |-> <<>>, body_part_satisfaction |-> <<>>]

\* _extract_exercise_ids: the ids of the main exercises of every day
RECURSIVE ExtractExerciseIds(_)
ExtractExerciseIds(days) ==
  IF days = <<>> THEN <<>>
  ELSE LET main == Head(days).main
           Real(slot) == slot.id # ""
                         /\ slot.id \notin {"warmup_mobility", "warmup_cardio",
                                            "cooldown_stretch"}
           kept == SelectSeq(main, Real)
       IN  [i \in DOMAIN kept |-> kept[i].id] \o ExtractExerciseIds(Tail(days))

\* update_one({user_id, exercise_id}, {$set last_used, $inc use_count}, upsert)
UpsertUsage(history_coll, exercise_id, current_time) ==
  IF \E i \in DOMAIN history_coll : history_coll[i].exercise_id = exercise_id
  THEN LET first == CHOOSE i \in DOMAIN history_coll :
                      /\ history_coll[i].exercise_id = exercise_id
                      /\ \A j \in DOMAIN history_coll :
                           history_coll[j].exercise_id = exercise_id => i <= j
       IN  [history_coll EXCEPT ![first].last_used = current_time,
                                ![first].use_count = @ + 1]
  ELSE Append(history_coll,
              [exercise_id |-> exercise_id, last_used |-> current_time,
               use_count |-> 1, first_used |-> current_time])

\* find({"user_id": user_id}).sort("generated_at", -1).limit(k)
RECURSIVE RecentWorkouts(_, _, _)
RecentWorkouts(coll, user_id, k) ==
  LET mine == {i \in DOMAIN coll : coll[i].user_id = user_id}
  IN  IF k = 0 \/ mine = {} THEN <<>>
      ELSE LET latest == CHOOSE i \in mine :
                           \A j \in mine : coll[j].generated_at <= coll[i].generated_at
           IN  <<coll[latest]>>
               \o RecentWorkouts(SubSeq(coll, 1, latest - 1)
                                   \o SubSeq(coll, latest + 1, Len(coll)),
                                 user_id, k - 1)

\* the comparison with every stored workout of the user, not the latest 3:
\* C18 fails of it
CheckAllWorkouts(coll, user_id, exercise_ids, threshold) ==
  LET recent_workouts == RecentWorkouts(coll, user_id, Len(coll))
      proposed_set == Range(exercise_ids)
  IN  \E i \in DOMAIN recent_workouts :
        LET existing_set == Range(recent_workouts[i].exercise_ids)
            intersection == Cardinality(proposed_set \cap existing_set)
            union == Cardinality(proposed_set \cup existing_set)
        IN  /\ existing_set # {}
            /\ intersection * threshold.den >= threshold.num * union

\* check_workout_similarity; the threshold is the fraction num / den
CheckWorkoutSimilarity(coll, user_id, exercise_ids, threshold) ==
  LET recent_workouts == RecentWorkouts(coll, user_id, 3)
      proposed_set == Range(exercise_ids)
  IN  IF recent_workouts = <<>> THEN FALSE
      ELSE \E i \in DOMAIN recent_workouts :
             LET existing_set == Range(recent_workouts[i].exercise_ids)
                 intersection == Cardinality(proposed_set \cap existing_set)
                 union == Cardinality(proposed_set \cup existing_set)
             IN  /\ existing_set # {}
                 /\ union > 0
                 /\ intersection * threshold.den >= threshold.num * union

(***************************************************************************)
(* State                                                                   *)
(***************************************************************************)
VARIABLES
  exercises_coll,        \* db.exercises, in insertion order
  exercise_history_coll, \* workout_history_db.exercise_history (one user)
  workouts_coll,         \* workout_history_db.generated_workouts
  session_logs,          \* db.session_logs: completion_percent of the user's logs
  now,                   \* datetime.utcnow(), in days
  user_snapshot,         \* argument of generate_weekly_plan
  durations,             \* target_daily_duration_minutes, by day number
  rng,                   \* state of the random generator
  fault,                 \* the store fault of this run
  calls,                 \* store calls made so far, by kind
  pc,                    \* position in generate_weekly_plan
  day,                   \* index into DAYS_OF_WEEK of the day being generated
  recent_exercise_data,  \* result of get_recent_exercise_ids
  user_preferences,      \* result of _get_ml_user_preferences
  plan,                  \* the plan being assembled
  week_exercise_ids,     \* main exercise ids placed so far this week
  frame,                 \* locals of _generate_day_plan / _apply_cascade_fallback
  pending,               \* save_generated_workout: ids still to upsert
  outcome,               \* "running", "returned" or "raised"
  user_weekly_plans,     \* db.user_weekly_plans, written by the callers
  held,                  \* plans returned to callers that have not stored them yet
  upserted,              \* the $set argument of the latest update_one of a caller
  run,                   \* number of the generation under way
  before,                \* exercise_history_coll when this generation began
  generated,             \* the days generated so far: allocation, label and pool
  earlier,               \* the seed of the first run and, once it is rerun, what it produced
  similar,               \* the latest result of check_workout_similarity
  writers                \* concurrent _update_exercise_history calls for the user

vars == <<exercises_coll, exercise_history_coll, workouts_coll, session_logs, now,
          user_snapshot, durations, rng, fault, calls, pc, day,
          recent_exercise_data, user_preferences, plan, week_exercise_ids,
          frame, pending, outcome,
          user_weekly_plans, held, upserted, run, before, generated, earlier,
          similar, writers>>

\* what the callers of generate_weekly_plan hold and write
callers == <<user_weekly_plans, held, upserted, run, before, earlier, similar,
             writers>>

stores == <<exercises_coll, exercise_history_coll, workouts_coll, session_logs, now>>
inputs == <<user_snapshot, durations, fault>>

(***************************************************************************)
(* Inputs                                                                  *)
(***************************************************************************)
\* a severely obese beginner with no equipment
BodyweightUser ==
  [user_id |-> "u1", weight_kg |-> 120, height_cm |-> 170,
   fitness_level |-> "Beginner", primary_goal |-> "weight_loss",
   equipment_list |-> <<"Bodyweight">>, injury_types |-> <<>>]
\* a normal-weight intermediate lifter with two injuries
BarbellUser ==
  [user_id |-> "u1", weight_kg |-> 70, height_cm |-> 175,
   fitness_level |-> "Intermediate", primary_goal |-> "strength",
   equipment_list |-> <<"Barbell">>, injury_types |-> <<"wrist", "knee">>]
\* an obese beginner with dumbbells and a knee injury
DumbbellUser ==
  [user_id |-> "u1", weight_kg |-> 95, height_cm |-> 170,
   fitness_level |-> "Beginner", primary_goal |-> "muscle_gain",
   equipment_list |-> <<"Dumbbell">>, injury_types |-> <<"knee">>]
Users == {BodyweightUser, BarbellUser, DumbbellUser}

\* the catalogs: everything, five bodyweight exercises, the eight barbell and
\* dumbbell exercises, nothing
SmallCatalog ==
  LET Small(doc) == doc.Title \in {"Glute Bridge", "Wall Sit", "Bird Dog",
                                   "Jumping Jacks", "Burpee"}
  IN  SelectSeq(Universe, Small)
GymCatalog ==
  LET Gym(doc) == doc.Equipment \in {"Barbell", "Dumbbell"}
  IN  SelectSeq(Universe, Gym)
Catalogs == {Universe, SmallCatalog, GymCatalog, <<>>}

\* minutes by day number; 0 is a rest day, and so is a day the map lacks
DurationMaps ==
  { <<20, 20, 20, 20, 20, 20, 20>>,
    <<30, 0, 20, 0, 0, 0, 0>>,
    (1 :> 30) @@ (4 :> 20) }

\* a default of 30 minutes for a day the map lacks: C27 fails of it
TargetDurationOrThirty(d) == IF d \in DOMAIN durations THEN durations[d] ELSE 30

\* target_daily_duration_minutes.get(day, 0)
TargetDuration(d) == IF d \in DOMAIN durations THEN durations[d] ELSE 0

\* usage histories: none; three recent entries and one outside the window
Histories ==
  { <<>>,
    << [exercise_id |-> "glute-bridge", last_used |-> 95, use_count |-> 2, first_used |-> 60],
       [exercise_id |-> "plank", last_used |-> 99, use_count |-> 1, first_used |-> 99],
       [exercise_id |-> "wall-sit", last_used |-> 70, use_count |-> 3, first_used |-> 50],
       [exercise_id |-> "lunges", last_used |-> 90, use_count |-> 1, first_used |-> 90] >> }

\* completion_percent of the logged sessions
SessionLogSets == { <<>>, <<50, 60>> }

\* what the stores hold for the user: nothing yet, or a usage history with
\* two logged sessions
StoreContents ==
  { [history |-> <<>>, logs |-> <<>>] }
  \cup [history : Histories \ {<<>>}, logs : SessionLogSets \ {<<>>}]

FaultKinds == {"usage_read", "session_read", "query", "insert", "upsert"}

Faults ==
  {[kind |-> "none", nth |-> 1, persistent |-> FALSE]}
  \cup [kind : {"usage_read", "session_read", "insert"}, nth : {1}, persistent : {FALSE}]
  \cup [kind : {"query"}, nth : 1..MaxFaultNth, persistent : BOOLEAN]
  \cup [kind : {"upsert"}, nth : 1..MaxFaultNth, persistent : {FALSE}]

\* whether the next store call of this kind fails
Fails(kind) ==
  /\ fault.kind = kind
  /\ \/ calls[kind] + 1 = fault.nth
     \/ fault.persistent /\ calls[kind] + 1 >= fault.nth

Called(kind) == [calls EXCEPT ![kind] = @ + 1]

NoFrame == [level |-> 0]

\* week_start_iso, the monday of the week the callers generate for
WeekStart == "2024-01-01"

NoPlan == [days |-> <<>>]
NotChecked == [checked |-> FALSE]

\* no caller has stored or checked anything, the first generation begins
InitCallers ==
  /\ user_weekly_plans = <<>>
  /\ held = <<>>
  /\ upserted = NoPlan
  /\ run = 1
  /\ before = exercise_history_coll
  /\ generated = <<>>
  /\ earlier = [seed |-> rng, finished |-> FALSE]
  /\ similar = NotChecked
  /\ writers = <<>>

Init ==
  /\ exercises_coll \in Catalogs
  /\ \E content \in StoreContents :
       /\ exercise_history_coll = content.history
       /\ session_logs = content.logs
  /\ workouts_coll = <<>>
  /\ now = 100
  /\ user_snapshot \in Users
  /\ durations \in DurationMaps
  /\ rng \in 1..MaxSeed
  /\ fault \in Faults
  /\ calls = [k \in FaultKinds |-> 0]
  /\ pc = "start"
  /\ day = 1
  /\ recent_exercise_data = <<>>
  /\ user_preferences = MlUserPreferences(<<>>)
  /\ plan = [days |-> <<>>, fallbacks_used |-> <<>>, bmi_category |-> "",
             workout_history_id |-> 0]
  /\ week_exercise_ids = <<>>
  /\ frame = NoFrame
  /\ pending = <<>>
  /\ outcome = "running"
  /\ InitCallers

(***************************************************************************)
(* generate_weekly_plan                                                    *)
(***************************************************************************)
NumDays == Len(DAYS_OF_WEEK)

\* the exception of a failed store call leaves generate_weekly_plan
Raise ==
  /\ outcome' = "raised"
  /\ pc' = "done"

\* lines 241-276: BMI, the recent-usage read, the empty plan
Start ==
  /\ pc = "start"
  /\ calls' = Called("usage_read")
  /\ LET bmi == ComputeBmi(user_snapshot.weight_kg, user_snapshot.height_cm)
         bmi_category == GetBmiCategory(bmi)
     IN  /\ user_snapshot' = [bmi |-> bmi, bmi_category |-> bmi_category] @@ user_snapshot
         /\ IF Fails("usage_read")
            THEN /\ Raise
                 /\ UNCHANGED <<recent_exercise_data, plan>>
            ELSE /\ recent_exercise_data' =
                      GetRecentExerciseIds(exercise_history_coll, now, 14)
                 /\ plan' = [user_id |-> user_snapshot.user_id,
                             week_start_iso |-> WeekStart,
                             generated_at_iso |-> now]
                            @@ [plan EXCEPT !.bmi_category = bmi_category]
                 /\ pc' = "prefs"
                 /\ UNCHANGED outcome
  /\ UNCHANGED <<callers, generated>>
  /\ UNCHANGED <<stores, durations, rng, fault, day, user_preferences,
                 week_exercise_ids, frame, pending>>

\* lines 278-285: the session-log read, the week's tracking list
ReadPreferences ==
  /\ pc = "prefs"
  /\ calls' = Called("session_read")
  /\ IF Fails("session_read")
     THEN /\ Raise
          /\ UNCHANGED user_preferences
     ELSE /\ user_preferences' = MlUserPreferences(Limit(session_logs, 30))
          /\ pc' = "day"
          /\ UNCHANGED outcome
  /\ UNCHANGED <<callers, generated>>
  /\ UNCHANGED <<stores, inputs, rng, day, recent_exercise_data, plan,
                 week_exercise_ids, frame, pending>>

\* recent_exercise_ids = [ex["id"] for ex in recent_exercise_data]
RecentExerciseIds == [i \in DOMAIN recent_exercise_data |-> recent_exercise_data[i].id]

\* plan['days'][day] = ...; plan['fallbacks_used'][day] = ...
WithDay(p, day_plan, fallback) ==
  [p EXCEPT !.days = Append(@, day_plan), !.fallbacks_used = Append(@, fallback)]

\* lines 289-293: a day of duration 0
RestDay ==
  /\ pc = "day" /\ day <= NumDays
  /\ TargetDuration(day) = 0
  /\ plan' = WithDay(plan, CreateRestDay, "rest")
  /\ day' = day + 1
  /\ UNCHANGED <<callers, generated>>
  /\ UNCHANGED <<stores, inputs, rng, calls, pc, recent_exercise_data,
                 user_preferences, week_exercise_ids, frame, pending, outcome>>

\* _generate_day_plan, lines 346-362, and _apply_cascade_fallback up to the
\* level-1 query being built
BeginDay ==
  /\ pc = "day" /\ day <= NumDays
  /\ TargetDuration(day) # 0
  /\ LET duration == TargetDuration(day)
         main_count == GetExerciseCount(MainDuration(duration))
         all_excluded_ids == RecentExerciseIds \o week_exercise_ids
     IN  frame' = [level |-> 1,
                   duration |-> duration,
                   warmup_duration |-> WarmupDuration(duration),
                   cooldown_duration |-> CooldownDuration(duration),
                   main_duration |-> MainDuration(duration),
                   main_count |-> main_count,
                   all_excluded_ids |-> all_excluded_ids,
                   min_exercises |-> main_count * 3,
                   query |-> PerfectQuery(user_snapshot, all_excluded_ids),
                   attempts |-> <<>>,
                   exercises |-> <<>>,
                   fallback_level |-> ""]
  /\ pc' = "cascade"
  /\ UNCHANGED <<callers, generated>>
  /\ UNCHANGED <<stores, inputs, rng, calls, day, recent_exercise_data,
                 user_preferences, plan, week_exercise_ids, pending, outcome>>

\* the day's exception ending the loop over the days: C8 fails of it
DayFailedAborts ==
  /\ plan' = WithDay(plan, CreateRestDay, "error")
  /\ day' = NumDays + 1
  /\ frame' = NoFrame
  /\ pc' = "day"

\* lines 315-318: the day's exception is caught, the day becomes a rest day
DayFailed ==
  /\ plan' = WithDay(plan, CreateRestDay, "error")
  /\ day' = day + 1
  /\ frame' = NoFrame
  /\ pc' = "day"

\* the comparison made strict: C3 fails of it
EnoughStrictly(exercises, min_exercises) == Len(exercises) > min_exercises

\* len(exercises) >= min_exercises
Enough(exercises, min_exercises) == Len(exercises) >= min_exercises

\* one level of the cascade: the find, then return or fall through; attempts
\* lists the levels tried so far with the sizes they found
TryLevel(n, query, label) ==
  /\ pc = "cascade" /\ frame.level = n
  /\ calls' = Called("query")
  /\ IF Fails("query")
     THEN DayFailed
     ELSE LET exercises == Find(exercises_coll, query, frame.min_exercises * 2)
          IN  /\ IF Enough(exercises, frame.min_exercises)
                 THEN /\ frame' = [frame EXCEPT !.query = query,
                                     !.attempts = Append(@, [label |-> label,
                                                             size |-> Len(exercises)]),
                                     !.exercises = exercises,
                                     !.fallback_level = label]
                      /\ pc' = "select"
                 ELSE /\ frame' = [frame EXCEPT !.query = query,
                                     !.attempts = Append(@, [label |-> label,
                                                             size |-> Len(exercises)]),
                                     !.level = n + 1]
                      /\ pc' = "cascade"
              /\ UNCHANGED <<plan, day>>
  /\ UNCHANGED <<callers, generated>>
  /\ UNCHANGED <<stores, inputs, rng, recent_exercise_data, user_preferences,
                 week_exercise_ids, pending, outcome>>

Level1 == TryLevel(1, frame.query, "perfect")
Level2 == TryLevel(2, RelaxEquipment(frame.query, user_snapshot.equipment_list),
                   "equipment_relaxed")
Level3 == TryLevel(3, RelaxDifficulty(frame.query, user_snapshot.fitness_level),
                   "difficulty_relaxed")
\* related_goals is looked up and not used: the level-3 query is issued again
Level4 == TryLevel(4, frame.query, "related_goals")
Level5 == TryLevel(5, DropTitle(frame.query), "bmi_relaxed")

\* _get_emergency_exercises without its hardcoded set: C2 fails of it
EmergencyNoHardcoded(found) == found

\* _get_emergency_exercises given the result of its find
EmergencyExercises(found) == IF found = <<>> THEN HardcodedFallback ELSE found

\* level 6
Level6 ==
  /\ pc = "cascade" /\ frame.level = 6
  /\ calls' = Called("query")
  /\ IF Fails("query")
     THEN DayFailed
     ELSE LET found == Find(exercises_coll, EmergencyQuery(frame.all_excluded_ids), 20)
          IN  /\ frame' = [frame EXCEPT
                              !.attempts = Append(@, [label |-> "emergency_bodyweight",
                                                      size |-> Len(found)]),
                              !.exercises = EmergencyExercises(found),
                              !.fallback_level = "emergency_bodyweight"]
              /\ pc' = "select"
              /\ UNCHANGED <<plan, day>>
  /\ UNCHANGED <<callers, generated>>
  /\ UNCHANGED <<stores, inputs, rng, recent_exercise_data, user_preferences,
                 week_exercise_ids, pending, outcome>>

\* the common denominator of the recency scores of this run
RecencyDen == Max(1, Len(recent_exercise_data))

\* _generate_day_plan, lines 369-411, and lines 307-313 of the caller: score,
\* select, build the day, record it and track its ids
ScoreDay ==
  /\ pc = "select"
  /\ LET exercises == frame.exercises
         xs == RngStates(rng, Len(exercises))
         jitters == [i \in DOMAIN exercises |-> JitterOf(xs[i])]
         selected == ScoreAndSelect(exercises, user_snapshot,
                                    RecencyMap(recent_exercise_data), user_preferences,
                                    frame.main_count, jitters, RecencyDen)
         x_main == RngAfter(rng, Len(exercises))
         main_exercises == BuildMain(selected, user_snapshot, user_preferences, x_main)
         x_motivation == RngAfter(x_main, 2 * Len(selected) + 1)
         day_plan == [target_duration |-> frame.duration,
                      warmup |-> BuildWarmup(frame.warmup_duration),
                      main |-> main_exercises,
                      cooldown |-> BuildCooldown(frame.cooldown_duration),
                      motivation |-> MotivationMessage(x_motivation)]
     IN  /\ plan' = WithDay(plan, day_plan, frame.fallback_level)
         /\ week_exercise_ids' =
              week_exercise_ids \o [i \in DOMAIN main_exercises |-> main_exercises[i].id]
         /\ rng' = x_motivation
  /\ generated' = Append(generated,
                         [day |-> day,
                          warmup_duration |-> frame.warmup_duration,
                          main_duration |-> frame.main_duration,
                          cooldown_duration |-> frame.cooldown_duration,
                          main_count |-> frame.main_count,
                          all_excluded_ids |-> frame.all_excluded_ids,
                          fallback_level |-> frame.fallback_level,
                          exercises |-> frame.exercises])
  /\ day' = day + 1
  /\ frame' = NoFrame
  /\ pc' = "day"
  /\ UNCHANGED callers
  /\ UNCHANGED <<stores, inputs, calls, recent_exercise_data, user_preferences,
                 pending, outcome>>

\* the exception of a failed write is caught at line 328: the plan is returned
ReturnPlan ==
  /\ outcome' = "returned"
  /\ pc' = "done"

\* save_generated_workout, lines 107-130: the workout record is inserted
SaveInsert ==
  /\ pc = "day" /\ day > NumDays
  /\ calls' = Called("insert")
  /\ IF Fails("insert")
     THEN /\ ReturnPlan
          /\ UNCHANGED <<workouts_coll, pending>>
     ELSE LET exercise_ids == ExtractExerciseIds(plan.days)
          IN  /\ workouts_coll' =
                   Append(workouts_coll,
                          [id |-> Len(workouts_coll) + 1,
                           user_id |-> user_snapshot.user_id,
                           week_start_iso |-> WeekStart,
                           generated_at |-> now,
                           exercise_ids |-> exercise_ids,
                           workout_plan |-> plan])
              /\ pending' = exercise_ids
              /\ pc' = "upsert"
              /\ UNCHANGED outcome
  /\ UNCHANGED <<callers, generated>>
  /\ UNCHANGED <<exercises_coll, exercise_history_coll, session_logs, now, inputs,
                 rng, day, recent_exercise_data, user_preferences, plan,
                 week_exercise_ids, frame>>

\* _update_exercise_history: one update_one per exercise id
UpsertNext ==
  /\ pc = "upsert" /\ pending # <<>>
  /\ calls' = Called("upsert")
  /\ IF Fails("upsert")
     THEN /\ ReturnPlan
          /\ UNCHANGED <<exercise_history_coll, pending>>
     ELSE /\ exercise_history_coll' = UpsertUsage(exercise_history_coll, Head(pending), now)
          /\ pending' = Tail(pending)
          /\ UNCHANGED <<pc, outcome>>
  /\ UNCHANGED <<callers, generated>>
  /\ UNCHANGED <<exercises_coll, workouts_coll, session_logs, now, inputs, rng, day,
                 recent_exercise_data, user_preferences, plan, week_exercise_ids, frame>>

\* lines 327 and 331: the saved id goes into the plan, the plan is returned
FinishSave ==
  /\ pc = "upsert" /\ pending = <<>>
  /\ plan' = [plan EXCEPT !.workout_history_id = Len(workouts_coll)]
  /\ ReturnPlan
  /\ UNCHANGED <<callers, generated>>
  /\ UNCHANGED <<stores, inputs, rng, calls, day, recent_exercise_data,
                 user_preferences, week_exercise_ids, frame, pending>>

Next ==
  \/ Start
  \/ ReadPreferences
  \/ RestDay
  \/ BeginDay
  \/ Level1
  \/ Level2
  \/ Level3
  \/ Level4
  \/ Level5
  \/ Level6
  \/ ScoreDay
  \/ SaveInsert
  \/ UpsertNext
  \/ FinishSave

Spec == Init /\ [][Next]_vars

(***************************************************************************)
(* The callers: generate_weekly_plan, then update_one on user_weekly_plans  *)
(***************************************************************************)
\* the update_one leaving a document already stored under the key as it is:
\* C19 fails of it
UpsertPlanIfAbsent(coll, new_plan) ==
  IF \E i \in DOMAIN coll : /\ coll[i].user_id = new_plan.user_id
                            /\ coll[i].week_start_iso = new_plan.week_start_iso
  THEN coll
  ELSE Append(coll, new_plan)

\* update_one({"user_id", "week_start_iso"}, {"$set": new_plan}, upsert=True):
\* the fields of new_plan replace those of the first matching document, other
\* fields of the document stay; without a match the plan is inserted
UpsertPlan(coll, new_plan) ==
  LET matching == {i \in DOMAIN coll : /\ coll[i].user_id = new_plan.user_id
                                       /\ coll[i].week_start_iso = new_plan.week_start_iso}
  IN  IF matching = {} THEN Append(coll, new_plan)
      ELSE LET first == CHOOSE i \in matching : \A j \in matching : i <= j
           IN  [coll EXCEPT ![first] = new_plan @@ coll[first]]

\* the caller of the generation that just returned stores its plan
StorePlan ==
  /\ pc = "done" /\ outcome = "returned"
  /\ user_weekly_plans' = UpsertPlan(user_weekly_plans, plan)
  /\ upserted' = plan
  /\ pc' = "stored"
  /\ UNCHANGED <<held, run, before, earlier, similar, generated, writers>>
  /\ UNCHANGED <<stores, inputs, rng, calls, day, recent_exercise_data,
                 user_preferences, plan, week_exercise_ids, frame, pending, outcome>>

\* a caller whose generation returned earlier stores its plan
StoreHeld ==
  /\ \E i \in DOMAIN held :
       /\ user_weekly_plans' = UpsertPlan(user_weekly_plans, held[i])
       /\ upserted' = held[i]
       /\ held' = SubSeq(held, 1, i - 1) \o SubSeq(held, i + 1, Len(held))
  /\ UNCHANGED <<run, before, earlier, similar, generated, writers>>
  /\ UNCHANGED <<stores, inputs, rng, calls, pc, day, recent_exercise_data,
                 user_preferences, plan, week_exercise_ids, frame, pending, outcome>>

\* the store faults of a regeneration
RegenerateFaults == {f \in Faults : f.kind \in {"none", "insert"}}

\* generate_weekly_plan is entered again
Enter ==
  /\ calls' = [k \in FaultKinds |-> 0]
  /\ pc' = "start"
  /\ day' = 1
  /\ recent_exercise_data' = <<>>
  /\ user_preferences' = MlUserPreferences(<<>>)
  /\ plan' = [days |-> <<>>, fallbacks_used |-> <<>>, bmi_category |-> "",
              workout_history_id |-> 0]
  /\ week_exercise_ids' = <<>>
  /\ frame' = NoFrame
  /\ pending' = <<>>
  /\ outcome' = "running"
  /\ generated' = <<>>
  /\ run' = run + 1

\* another caller generates for the same user and week, a day later, while
\* the caller of a returned generation may still have its plan to store
Regenerate ==
  /\ pc \in {"done", "stored"}
  /\ run < MaxRuns
  /\ held' = IF pc = "done" /\ outcome = "returned" THEN Append(held, plan) ELSE held
  /\ Enter
  /\ rng' \in 1..MaxSeed
  /\ fault' \in RegenerateFaults
  /\ now' = now + 1
  /\ before' = exercise_history_coll
  /\ UNCHANGED <<user_weekly_plans, upserted, earlier, similar, writers>>
  /\ UNCHANGED <<exercises_coll, exercise_history_coll, workouts_coll, session_logs,
                 user_snapshot, durations>>

InitSessions ==
  /\ Init
  /\ exercises_coll \in {Universe, <<>>}
  /\ user_snapshot \in {BodyweightUser, BarbellUser}
  /\ durations = <<30, 0, 20, 0, 0, 0, 0>>
  /\ exercise_history_coll = <<>>
  /\ fault \in RegenerateFaults

NextSessions ==
  \/ Next
  \/ StorePlan
  \/ StoreHeld
  \/ Regenerate

SpecSessions == InitSessions /\ [][NextSessions]_vars

(***************************************************************************)
(* Two runs of generate_weekly_plan on the same inputs                     *)
(***************************************************************************)
\* the first run has returned: its plan and days are kept, the stores are put
\* back as they were before it, and the generation runs again at the same
\* time with a seed of its own
Rerun ==
  /\ pc = "done" /\ outcome = "returned"
  /\ ~earlier.finished
  /\ \E seed \in 1..MaxSeed :
       /\ rng' = seed
       /\ earlier' = [seed |-> earlier.seed, finished |-> TRUE, next_seed |-> seed,
                      plan |-> plan, generated |-> generated]
  /\ exercise_history_coll' = before
  /\ workouts_coll' = <<>>
  /\ Enter
  /\ UNCHANGED <<user_weekly_plans, held, upserted, before, similar, writers>>
  /\ UNCHANGED <<exercises_coll, session_logs, now, inputs>>

InitRerun ==
  /\ Init
  /\ fault.kind = "none"

NextRerun ==
  \/ Next
  \/ Rerun

SpecRerun == InitRerun /\ [][NextRerun]_vars

(***************************************************************************)
(* The duration allocation of _generate_day_plan over a range of durations *)
(***************************************************************************)
\* the snapshot generate_weekly_plan works on once the BMI is computed
Snapshot(user) ==
  LET bmi == ComputeBmi(user.weight_kg, user.height_cm)
  IN  [bmi |-> bmi, bmi_category |-> GetBmiCategory(bmi)] @@ user

\* generate_weekly_plan about to generate monday, for every requested duration
InitAlloc ==
  /\ exercises_coll = SmallCatalog
  /\ exercise_history_coll = <<>>
  /\ workouts_coll = <<>>
  /\ session_logs = <<>>
  /\ now = 100
  /\ user_snapshot = Snapshot(BodyweightUser)
  /\ durations \in {[i \in 1..NumDays |-> IF i = 1 THEN d ELSE 0] : d \in 1..MaxDuration}
  /\ rng = 1
  /\ fault = [kind |-> "none", nth |-> 1, persistent |-> FALSE]
  /\ calls = [k \in FaultKinds |-> IF k \in {"usage_read", "session_read"} THEN 1 ELSE 0]
  /\ pc = "day"
  /\ day = 1
  /\ recent_exercise_data = <<>>
  /\ user_preferences = MlUserPreferences(<<>>)
  /\ plan = [days |-> <<>>, fallbacks_used |-> <<>>,
             bmi_category |-> user_snapshot.bmi_category, workout_history_id |-> 0]
  /\ week_exercise_ids = <<>>
  /\ frame = NoFrame
  /\ pending = <<>>
  /\ outcome = "running"
  /\ InitCallers

NextAlloc == BeginDay

SpecAlloc == InitAlloc /\ [][NextAlloc]_vars

(***************************************************************************)
(* The scorer of _score_and_select_exercises on three candidates that      *)
(* differ only in recency                                                  *)
(***************************************************************************)
\* a usage history of n exercises of the catalog, the first the most recent,
\* all inside the 14-day window
UsageOf(n) ==
  [i \in 1..n |-> [exercise_id |-> Universe[i].exercise_id_clean,
                   last_used |-> 100 - i, use_count |-> 1, first_used |-> 100 - i]]

\* values of random.uniform(0, 0.05), in thousandths
JitterValues == {0, 10, 20, 30, 40, 49}

InitScore ==
  /\ exercises_coll = Universe
  /\ exercise_history_coll \in {UsageOf(n) : n \in 2..MaxRecent}
  /\ workouts_coll = <<>>
  /\ session_logs = <<>>
  /\ now = 100
  /\ user_snapshot = BodyweightUser
  /\ durations = [i \in 1..NumDays |-> 20]
  /\ rng = 1
  /\ fault = [kind |-> "none", nth |-> 1, persistent |-> FALSE]
  /\ calls = [k \in FaultKinds |-> 0]
  /\ pc = "start"
  /\ day = 1
  /\ recent_exercise_data = <<>>
  /\ user_preferences = MlUserPreferences(<<>>)
  /\ plan = [days |-> <<>>, fallbacks_used |-> <<>>, bmi_category |-> "",
             workout_history_id |-> 0]
  /\ week_exercise_ids = <<>>
  /\ frame = NoFrame
  /\ pending = <<>>
  /\ outcome = "running"
  /\ InitCallers

\* lines 559-591 on the pool <<most recent, least recent, never used>>, each
\* with a jitter of its own: score is with the jitter, base without
ScoreCandidates ==
  /\ pc = "day" /\ day = 1
  /\ \E jitters \in [1..3 -> JitterValues] :
       LET n == Len(recent_exercise_data)
           candidates == <<Universe[1], Universe[n], Universe[n + 1]>>
           recency_map == RecencyMap(recent_exercise_data)
           Score(i, jitter) == ScaledScore(candidates[i], user_snapshot, recency_map,
                                           user_preferences, jitter, RecencyDen)
       IN  frame' = [level |-> 0,
                     candidates |-> candidates,
                     jitters |-> jitters,
                     score |-> [i \in 1..3 |-> Score(i, jitters[i])],
                     base |-> [i \in 1..3 |-> Score(i, 0)]]
  /\ pc' = "scored"
  /\ UNCHANGED <<callers, generated>>
  /\ UNCHANGED <<stores, inputs, rng, calls, day, recent_exercise_data,
                 user_preferences, plan, week_exercise_ids, pending, outcome>>

\* the pools handed to the scorer: runs of consecutive catalog documents
Pools ==
  {SubSeq(Universe, w[1], w[2]) :
     w \in {v \in (1..Len(Universe)) \X (1..Len(Universe)) :
              v[2] - v[1] + 1 \in 3..MaxPool}}

\* _score_and_select_exercises on a pool, for the counts of the shorter days;
\* the jitters are all zero (equal scores keep the pool's order) or drawn
\* from a seeded generator
SelectCandidates ==
  /\ pc = "day" /\ day = 1
  /\ \E pool \in Pools, count \in {3, 4, 5}, seed \in 0..MaxSeed :
       LET xs == RngStates(seed, Len(pool))
           jitters == [i \in DOMAIN pool |-> IF seed = 0 THEN 0 ELSE JitterOf(xs[i])]
           recency_map == RecencyMap(recent_exercise_data)
       IN  frame' = [level |-> 0,
                     exercises |-> pool,
                     count |-> count,
                     score |-> [i \in DOMAIN pool |->
                                  ScaledScore(pool[i], user_snapshot, recency_map,
                                              user_preferences, jitters[i], RecencyDen)],
                     selected |-> ScoreAndSelect(pool, user_snapshot, recency_map,
                                                 user_preferences, count, jitters,
                                                 RecencyDen)]
  /\ pc' = "selected"
  /\ UNCHANGED <<callers, generated>>
  /\ UNCHANGED <<stores, inputs, rng, calls, day, recent_exercise_data,
                 user_preferences, plan, week_exercise_ids, pending, outcome>>

NextScore ==
  \/ Start
  \/ ReadPreferences
  \/ ScoreCandidates
  \/ SelectCandidates

SpecScore == InitScore /\ [][NextScore]_vars

(***************************************************************************)
(* check_workout_similarity over stored workouts of two users              *)
(***************************************************************************)
\* exercise_ids and owner of the workouts stored before the check
StoredWorkoutKinds ==
  { [user_id |-> "u1", exercise_ids |-> <<>>],
    [user_id |-> "u1", exercise_ids |-> <<"squats", "plank", "lunges">>],
    [user_id |-> "u1", exercise_ids |-> <<"burpee", "plank">>],
    [user_id |-> "u2", exercise_ids |-> <<"squats", "plank", "lunges", "pushups">>] }

\* the proposed id lists: one with a repeated id, one a superset of a stored
\* list, the empty one
ProposedIds ==
  { <<"plank", "squats", "lunges", "plank">>,
    <<"squats", "plank", "lunges", "pushups">>,
    <<>> }

\* the default threshold 0.7, and 0.75 and 0.8
Thresholds == { [num |-> 7, den |-> 10], [num |-> 3, den |-> 4], [num |-> 4, den |-> 5] }

\* generated_workouts holds up to MaxWorkouts workouts, inserted a day apart
InitSimilarity ==
  /\ exercises_coll = <<>>
  /\ exercise_history_coll = <<>>
  /\ \E n \in 0..MaxWorkouts : \E kinds \in [1..n -> StoredWorkoutKinds] :
       workouts_coll = [i \in 1..n |-> [id |-> i, generated_at |-> 90 + i] @@ kinds[i]]
  /\ session_logs = <<>>
  /\ now = 100
  /\ user_snapshot = BodyweightUser
  /\ durations = [i \in 1..NumDays |-> 20]
  /\ rng = 1
  /\ fault = [kind |-> "none", nth |-> 1, persistent |-> FALSE]
  /\ calls = [k \in FaultKinds |-> 0]
  /\ pc = "start"
  /\ day = 1
  /\ recent_exercise_data = <<>>
  /\ user_preferences = MlUserPreferences(<<>>)
  /\ plan = [days |-> <<>>, fallbacks_used |-> <<>>, bmi_category |-> "",
             workout_history_id |-> 0]
  /\ week_exercise_ids = <<>>
  /\ frame = NoFrame
  /\ pending = <<>>
  /\ outcome = "running"
  /\ InitCallers

\* a caller asks whether a proposed list of ids is too similar
CheckSimilarity ==
  /\ \E exercise_ids \in ProposedIds, threshold \in Thresholds :
       similar' = [checked |-> TRUE,
                   user_id |-> user_snapshot.user_id,
                   exercise_ids |-> exercise_ids,
                   threshold |-> threshold,
                   result |-> CheckWorkoutSimilarity(workouts_coll, user_snapshot.user_id,
                                                     exercise_ids, threshold)]
  /\ UNCHANGED <<user_weekly_plans, held, upserted, run, before, earlier, generated, writers>>
  /\ UNCHANGED <<stores, inputs, rng, calls, pc, day, recent_exercise_data,
                 user_preferences, plan, week_exercise_ids, frame, pending, outcome>>

NextSimilarity == CheckSimilarity

SpecSimilarity == InitSimilarity /\ [][NextSimilarity]_vars

(***************************************************************************)
(* ExerciseFilter on pools of the catalog and on the catalogs              *)
(***************************************************************************)
\* filter_for_safety on the first documents of the catalog with the injuries of
\* the user and any BMI category: once, again on its own result, and with one
\* more injury type
FilterCandidates ==
  /\ pc = "start"
  /\ \E n \in 0..Len(exercises_coll), bmi_category \in BmiCategories \cup {"unknown"},
        injury \in InjuryTypes :
       LET candidates == SubSeq(exercises_coll, 1, n)
           injury_types == user_snapshot.injury_types
           safe == FilterForSafety(candidates, bmi_category, injury_types)
       IN  frame' = [level |-> 0,
                     candidates |-> candidates,
                     bmi_category |-> bmi_category,
                     injury_types |-> injury_types,
                     safe |-> safe,
                     again |-> FilterForSafety(safe, bmi_category, injury_types),
                     injury |-> injury,
                     with_injury |-> FilterForSafety(candidates, bmi_category,
                                                     Append(injury_types, injury))]
  /\ pc' = "filtered"
  /\ UNCHANGED <<callers, generated>>
  /\ UNCHANGED <<stores, inputs, rng, calls, day, recent_exercise_data,
                 user_preferences, plan, week_exercise_ids, pending, outcome>>

\* apply_cascade_fallback for the user on the catalog
CascadeCandidates ==
  /\ pc = "start"
  /\ \E min_exercises \in 3..MaxMinExercises,
        user_profile \in {Snapshot(user_snapshot)} :
       frame' = [level |-> 0, min_exercises |-> min_exercises]
                @@ ApplyCascadeFallback(exercises_coll, user_profile, min_exercises)
  /\ pc' = "cascaded"
  /\ UNCHANGED <<callers, generated>>
  /\ UNCHANGED <<stores, inputs, rng, calls, day, recent_exercise_data,
                 user_preferences, plan, week_exercise_ids, pending, outcome>>

InitFilter ==
  /\ Init
  /\ fault.kind = "none"
  /\ rng = 1
  /\ exercise_history_coll = <<>>
  /\ session_logs = <<>>
  /\ durations = [i \in 1..NumDays |-> 20]

NextFilter ==
  \/ FilterCandidates
  \/ CascadeCandidates

SpecFilter == InitFilter /\ [][NextFilter]_vars

(***************************************************************************)
(* _get_ml_user_preferences and _build_exercise_detail for every pair of   *)
(* the sets/reps table and logged sessions of every kind                   *)
(***************************************************************************)
MaxLogs == 2
MaxDraw == 4

\* session logs as the ML modules read them: completion_percent in hundredths
\* and avg_rpe in tenths
LoggedSession ==
  { [completion_percent |-> 50, avg_rpe |-> 90],
    [completion_percent |-> 70, avg_rpe |-> 85],
    [completion_percent |-> 80, avg_rpe |-> 70],
    [completion_percent |-> 95, avg_rpe |-> 60],
    [completion_percent |-> 100, avg_rpe |-> 50] }

LoggedSessions == UNION { [1..n -> LoggedSession] : n \in 0..MaxLogs }

\* [log.get('completion_percent', 0.8) for log in logs]
Completions(logs) == [i \in DOMAIN logs |-> logs[i].completion_percent]

\* the preferences read from the logs, then the detail of one exercise
BuildDetail ==
  /\ pc = "start"
  /\ \E fitness_level \in DOMAIN SETS_REPS_RANGES,
        goal \in DOMAIN SETS_REPS_RANGES["Beginner"],
        logs \in LoggedSessions, k \in 0..MaxDraw :
       LET snapshot == [Snapshot(user_snapshot) EXCEPT !.fitness_level = fitness_level,
                                                       !.primary_goal = goal]
           preferences == MlUserPreferences(Completions(Limit(logs, 30)))
           ranges == BaseRanges(fitness_level, goal)
           x_sets == 16 * k
       IN  frame' = [level |-> 0,
                     fitness_level |-> fitness_level,
                     goal |-> goal,
                     logs |-> logs,
                     user_preferences |-> preferences,
                     sets_range |-> AdaptedSets(ranges.sets,
                                                preferences.avg_completion_rate),
                     reps_range |-> ranges.reps,
                     detail |-> BuildExerciseDetail(exercises_coll[1], snapshot,
                                                    preferences, x_sets,
                                                    RngNext(x_sets))]
  /\ pc' = "detailed"
  /\ UNCHANGED <<callers, generated>>
  /\ UNCHANGED <<stores, inputs, rng, calls, day, recent_exercise_data,
                 user_preferences, plan, week_exercise_ids, pending, outcome>>

InitDetail ==
  /\ InitFilter
  /\ exercises_coll = Universe

NextDetail == BuildDetail

SpecDetail == InitDetail /\ [][NextDetail]_vars

(***************************************************************************)
(* _update_exercise_history of generations running at the same time for    *)
(* the user, and the passing of time.  update_one is atomic on a document  *)
(* it matches; an upsert that matches none inserts, and exercise_history   *)
(* has no unique index (lines 49-53), so two such upserts can both insert  *)
(***************************************************************************)
MaxWriters == 2
MaxWeeks == 2

\* the main exercise ids of the plans being saved
WriterIds == { <<"plank", "burpee">>, <<"burpee", "plank">>, <<"glute-bridge">> }

\* a generation reaches _update_exercise_history with the ids of its plan
BeginUpdate ==
  /\ Len(writers) < MaxWriters
  /\ \E exercise_ids \in WriterIds :
       writers' = Append(writers, [pending |-> exercise_ids, missed |-> FALSE,
                                   now |-> now, done |-> <<>>])
  /\ UNCHANGED <<user_weekly_plans, held, upserted, run, before, earlier, similar>>
  /\ UNCHANGED <<stores, inputs, rng, calls, pc, day, recent_exercise_data,
                 user_preferences, plan, week_exercise_ids, frame, pending, outcome,
                 generated>>

NewUsage(exercise_id, current_time) ==
  [exercise_id |-> exercise_id, last_used |-> current_time, use_count |-> 1,
   first_used |-> current_time]

\* update_one looks for the document of the next id: found, it is updated in
\* place; not found, the insert follows
UpsertMatch(w) ==
  /\ w \in DOMAIN writers
  /\ writers[w].pending # <<>>
  /\ ~writers[w].missed
  /\ LET exercise_id == Head(writers[w].pending)
     IN  IF \E i \in DOMAIN exercise_history_coll :
                exercise_history_coll[i].exercise_id = exercise_id
         THEN /\ exercise_history_coll' =
                   UpsertUsage(exercise_history_coll, exercise_id, writers[w].now)
              /\ writers' = [writers EXCEPT ![w].pending = Tail(@),
                                            ![w].done = Append(@, exercise_id)]
         ELSE /\ writers' = [writers EXCEPT ![w].missed = TRUE]
              /\ UNCHANGED exercise_history_coll
  /\ UNCHANGED <<user_weekly_plans, held, upserted, run, before, earlier, similar>>
  /\ UNCHANGED <<exercises_coll, workouts_coll, session_logs, now, inputs, rng, calls,
                 pc, day, recent_exercise_data, user_preferences, plan,
                 week_exercise_ids, frame, pending, outcome, generated>>

\* the insert of an upsert that matched nothing; when another upsert has
\* inserted the id meanwhile the server may retry as an update or insert a
\* second document
UpsertInsert(w) ==
  /\ w \in DOMAIN writers
  /\ writers[w].pending # <<>>
  /\ writers[w].missed
  /\ LET exercise_id == Head(writers[w].pending)
     IN  \/ exercise_history_coll' =
              Append(exercise_history_coll, NewUsage(exercise_id, writers[w].now))
         \/ /\ \E i \in DOMAIN exercise_history_coll :
                 exercise_history_coll[i].exercise_id = exercise_id
            /\ exercise_history_coll' =
                 UpsertUsage(exercise_history_coll, exercise_id, writers[w].now)
  /\ writers' = [writers EXCEPT ![w].pending = Tail(@), ![w].missed = FALSE,
                                ![w].done = Append(@, Head(writers[w].pending))]
  /\ UNCHANGED <<user_weekly_plans, held, upserted, run, before, earlier, similar>>
  /\ UNCHANGED <<exercises_coll, workouts_coll, session_logs, now, inputs, rng, calls,
                 pc, day, recent_exercise_data, user_preferences, plan,
                 week_exercise_ids, frame, pending, outcome, generated>>

\* a week passes
WeekPasses ==
  /\ now < 100 + 7 * MaxWeeks
  /\ now' = now + 7
  /\ UNCHANGED callers
  /\ UNCHANGED <<exercises_coll, exercise_history_coll, workouts_coll, session_logs,
                 inputs, rng, calls, pc, day, recent_exercise_data, user_preferences,
                 plan, week_exercise_ids, frame, pending, outcome, generated>>

InitWriters ==
  /\ InitDetail
  /\ user_snapshot = BodyweightUser

NextWriters ==
  \/ BeginUpdate
  \/ \E w \in 1..MaxWriters : UpsertMatch(w)
  \/ \E w \in 1..MaxWriters : UpsertInsert(w)
  \/ WeekPasses

SpecWriters == InitWriters /\ [][NextWriters]_vars

(***************************************************************************)
(* generate_weekly_plan up to monday's first query, for users of every     *)
(* weight and height                                                       *)
(***************************************************************************)
MaxWeightTens == 32

\* weights in kg, heights in cm
Weights == {10 * k : k \in 3..MaxWeightTens}
Heights == {150, 170, 190}

InitBmi ==
  /\ exercises_coll = SmallCatalog
  /\ exercise_history_coll = <<>>
  /\ workouts_coll = <<>>
  /\ session_logs = <<>>
  /\ now = 100
  /\ user_snapshot \in {[BodyweightUser EXCEPT !.weight_kg = w, !.height_cm = h] :
                          w \in Weights, h \in Heights}
  /\ durations = [i \in 1..NumDays |-> 20]
  /\ rng = 1
  /\ fault = [kind |-> "none", nth |-> 1, persistent |-> FALSE]
  /\ calls = [k \in FaultKinds |-> 0]
  /\ pc = "start"
  /\ day = 1
  /\ recent_exercise_data = <<>>
  /\ user_preferences = MlUserPreferences(<<>>)
  /\ plan = [days |-> <<>>, fallbacks_used |-> <<>>, bmi_category |-> "",
             workout_history_id |-> 0]
  /\ week_exercise_ids = <<>>
  /\ frame = NoFrame
  /\ pending = <<>>
  /\ outcome = "running"
  /\ InitCallers

NextBmi ==
  \/ Start
  \/ ReadPreferences
  \/ BeginDay

SpecBmi == InitBmi /\ [][NextBmi]_vars

(***************************************************************************)
(* Properties                                                              *)
(***************************************************************************)
\* ids of the main exercises of a day of the plan
MainIds(day_plan) == {day_plan.main[i].id : i \in DOMAIN day_plan.main}

\* title and description of the catalog document a main exercise was built
\* from; the hardcoded exercises have no description
SlotTexts(slot) ==
  {slot.name}
  \cup {doc.Desc : doc \in {d \in Range(exercises_coll) :
                               d.exercise_id_clean = slot.id /\ d.Title = slot.name}}

\* the blacklist of the user's BMI category and the contraindication
\* keywords of the user's injuries
UnsafeKeywords ==
  Blacklist(user_snapshot.bmi_category) \o InjuryKeywords(user_snapshot.injury_types)

\* C1: every main exercise of every day of the plan has a title and a
\* description that contain, case-insensitively, no blacklist keyword of the
\* user's BMI category and no contraindication keyword of the user's injuries,
\* whichever cascade level produced the day's pool.
C1_MainExercisesSafe ==
  \A d \in DOMAIN plan.days :
    \A i \in DOMAIN plan.days[d].main :
      \A text \in SlotTexts(plan.days[d].main[i]) :
        ~RegexSearchI(UnsafeKeywords, text)

\* C2: whenever the cascade returns, its pool is not empty and its label is
\* one of the six level labels; when level 6 was reached and its catalog query
\* found nothing, the pool is the hardcoded set.
C2_CascadeTotal ==
  pc = "select" =>
    /\ frame.exercises # <<>>
    /\ frame.fallback_level \in Range(CASCADE_FALLBACK_LEVELS)
    /\ (frame.level = 6 /\ frame.attempts[6].size = 0) =>
          frame.exercises = HardcodedFallback

\* the cascade returned the hardcoded set for an empty catalog
C2_Witness ==
  /\ pc = "select"
  /\ exercises_coll = <<>>
  /\ frame.fallback_level = "emergency_bodyweight"
  /\ frame.exercises = HardcodedFallback

\* C3: the levels are attempted in the order of CASCADE_FALLBACK_LEVELS, each
\* once; while the cascade runs every level attempted so far fell short of
\* min_exercises = 3 * main_count; the label returned is that of the last
\* level attempted, every level before it fell short, and unless the label is
\* emergency_bodyweight that level reached min_exercises.
C3_FirstSufficientLevel ==
  pc \in {"cascade", "select"} =>
    LET attempts == frame.attempts
        Short(k) == attempts[k].size < frame.min_exercises
    IN  /\ frame.min_exercises = 3 * frame.main_count
        /\ Len(attempts) <= Len(CASCADE_FALLBACK_LEVELS)
        /\ \A k \in DOMAIN attempts : attempts[k].label = CASCADE_FALLBACK_LEVELS[k]
        /\ pc = "cascade" =>
              /\ Len(attempts) = frame.level - 1
              /\ \A k \in DOMAIN attempts : Short(k)
        /\ pc = "select" =>
              /\ attempts # <<>>
              /\ frame.fallback_level = attempts[Len(attempts)].label
              /\ \A k \in 1..(Len(attempts) - 1) : Short(k)
              /\ frame.fallback_level # "emergency_bodyweight" =>
                    ~Short(Len(attempts))

\* the cascade returned at level 5 after four levels that fell short
C3_Witness ==
  /\ pc = "select"
  /\ frame.fallback_level = "bmi_relaxed"
  /\ Len(frame.attempts) = 5

\* no main exercise id is on two different days of the plan
NoCrossDayRepeat ==
  \A d, e \in DOMAIN plan.days :
    d # e => MainIds(plan.days[d]) \cap MainIds(plan.days[e]) = {}

\* the active catalog documents whose title and description hold no unsafe
\* keyword of the user
SafeCatalogIds ==
  {doc.exercise_id_clean : doc \in {d \in Range(exercises_coll) :
      /\ d.is_active
      /\ ~RegexSearchI(UnsafeKeywords, d.Title)
      /\ ~RegexSearchI(UnsafeKeywords, d.Desc)}}

\* the main exercises the week asks for
WeekRequirement ==
  SeqSum([d \in 1..NumDays |->
            IF TargetDuration(d) = 0 THEN 0
            ELSE GetExerciseCount(MainDuration(TargetDuration(d)))])

C5_AllocationSums ==
  (pc = "cascade" /\ frame.duration > 0) =>
    LET d == frame.duration
        total == frame.warmup_duration + frame.main_duration + frame.cooldown_duration
    IN  /\ frame.warmup_duration = Max(5, (15 * d) \div 100)
        /\ frame.cooldown_duration = Max(3, (10 * d) \div 100)
        /\ frame.main_duration = d - frame.warmup_duration - frame.cooldown_duration
        /\ total - d \in {-1, 0, 1}

\* a short day, where both floors apply and main is what is left of 7 minutes
C5_Witness ==
  /\ pc = "cascade"
  /\ frame.duration = 7
  /\ frame.warmup_duration = 5
  /\ frame.cooldown_duration = 3
  /\ frame.main_duration = -1

\* the user and the day of the example of C6
ExampleDay(d) ==
  /\ user_snapshot.equipment_list = <<"Bodyweight">>
  /\ user_snapshot.fitness_level = "Beginner"
  /\ "bmi_category" \in DOMAIN user_snapshot
  /\ user_snapshot.bmi_category = "severe_obese"
  /\ TargetDuration(d) = 30

\* C6: for the Bodyweight, Beginner, severe_obese user and a 30-minute day
\* the allocation is 5 / 22 / 3, the main count is 4, no main exercise title
\* contains "jump" or "burpee" and every main exercise has RPE upper bound 7.
C6_Example ==
  /\ (pc \in {"cascade", "select"} /\ ExampleDay(day)) =>
        /\ frame.warmup_duration = 5
        /\ frame.cooldown_duration = 3
        /\ frame.main_duration = 22
        /\ frame.main_count = 4
  /\ \A d \in DOMAIN plan.days :
        ExampleDay(d) =>
          \A i \in DOMAIN plan.days[d].main :
            /\ ~RegexSearchI(<<"jump", "burpee">>, plan.days[d].main[i].name)
            /\ plan.days[d].main[i].predicted_rpe_range[2] = 7

\* C7: generate_weekly_plan never ends with an exception leaving it,
\* whichever store call fails.
C7_NeverRaises == outcome # "raised"

\* a rest day: no warmup, no main exercise, no cooldown
IsRestDay(day_plan) ==
  day_plan.warmup = <<>> /\ day_plan.main = <<>> /\ day_plan.cooldown = <<>>

\* C8, the step of a day whose generation raises: the day becomes a rest day
\* labelled "error", the days and labels before it stay as they are, the
\* week's list of used ids gains nothing and the loop goes on to the next day.
DayFailureIsolated ==
  (pc = "cascade" /\ Fails("query")) =>
    /\ Len(plan'.days) = Len(plan.days) + 1
    /\ SubSeq(plan'.days, 1, Len(plan.days)) = plan.days
    /\ SubSeq(plan'.fallbacks_used, 1, Len(plan.days)) = plan.fallbacks_used
    /\ IsRestDay(plan'.days[day])
    /\ plan'.fallbacks_used[day] = "error"
    /\ week_exercise_ids' = week_exercise_ids
    /\ day' = day + 1 /\ pc' = "day"

\* C8, the plan: a day labelled "error" is a rest day, a later day that did
\* not fail is generated, and a returned plan has a day and a label for each
\* of the 7 days.
PlanIsolatesFailedDays ==
  /\ Len(plan.days) = Len(plan.fallbacks_used)
  /\ \A d \in DOMAIN plan.days :
        /\ plan.fallbacks_used[d] = "error" => IsRestDay(plan.days[d])
        /\ plan.fallbacks_used[d] \notin {"error", "rest"} =>
              /\ plan.days[d].target_duration = TargetDuration(d)
              /\ plan.days[d].main # <<>>
  /\ outcome = "returned" => Len(plan.days) = NumDays

\* C8: a day whose generation raises becomes a rest day labelled "error",
\* leaves the earlier days and the week's used ids as they were, and the later
\* days are still generated; the returned plan has 7 days and 7 labels.
C8_DayFailureIsolated ==
  [](PlanIsolatesFailedDays) /\ [][DayFailureIsolated]_vars

\* a returned plan whose second day failed and whose first and third were
\* generated
C8_Witness ==
  /\ outcome = "returned"
  /\ plan.fallbacks_used[2] = "error"
  /\ plan.days[1].main # <<>>
  /\ plan.days[3].main # <<>>

\* C9: nothing is written before the 7 days are built, and the persistence
\* step leaves all of its writes (the plan record and every usage upsert) or
\* none of them.
C9_WritesAllOrNothing ==
  /\ Len(plan.days) < NumDays => (workouts_coll = <<>> /\ calls["upsert"] = 0)
  /\ pc = "done" =>
        \/ workouts_coll = <<>> /\ calls["upsert"] = 0
        \/ workouts_coll # <<>> /\ pending = <<>>

\* C10: of three candidates that differ only in recency the scores with the
\* jitter are strictly ordered most recent < least recent < never used.
C10_RecencyOrder ==
  pc = "scored" =>
    /\ frame.score[1] < frame.score[2]
    /\ frame.score[2] < frame.score[3]

\* C12: every main exercise slot of every generated day has the RPE range
\* <<6, min(9, cap)>>, cap being the RPE cap of the user's BMI category; the
\* upper bound is at most the cap and the lower bound at most the upper
\* bound, for every BMI category of the table.
C12_RpeRange ==
  /\ \A d \in DOMAIN plan.days : \A i \in DOMAIN plan.days[d].main :
       LET range == plan.days[d].main[i].predicted_rpe_range
           cap == BMI_RPE_CAPS[user_snapshot.bmi_category]
       IN  /\ range = <<6, IF cap < 9 THEN cap ELSE 9>>
           /\ range[2] <= cap
           /\ range[1] <= range[2]
  /\ \A c \in BmiCategories :
       /\ 6 <= RpeMax(c)
       /\ RpeMax(c) <= BMI_RPE_CAPS[c]
       /\ RpeMax(c) <= 9

\* a returned plan of the normal-weight user, whose cap of 10 is above 9,
\* with a generated day
C12_Witness ==
  /\ outcome = "returned"
  /\ user_snapshot.bmi_category = "normal"
  /\ \E d \in DOMAIN plan.days : plan.days[d].main # <<>>

\* C14: on every active day that did not degrade to "error", the number of
\* main exercises of the day plan is the bucket-table value of the day's main
\* minutes (3, 4, 5, 6, 8, 10 for [0,20), [20,30), [30,45), [45,60), [60,90),
\* [90,999)), whichever cascade level supplied the pool.
C14_MainCountIsBucket ==
  \A d \in DOMAIN plan.days :
    plan.fallbacks_used[d] \notin {"rest", "error"} =>
      LET m == MainDuration(TargetDuration(d))
          bucket == IF m < 20 THEN 3
                    ELSE IF m < 30 THEN 4
                    ELSE IF m < 45 THEN 5
                    ELSE IF m < 60 THEN 6
                    ELSE IF m < 90 THEN 8
                    ELSE 10
      IN  Len(plan.days[d].main) = bucket

\* C17: a store failure during a catalog query, a usage read or the plan and
\* usage write is propagated to the caller of the generation: a run in which
\* a store call failed ends raised, never returned.
C17_StoreFailurePropagates ==
  (pc = "done" /\ fault.kind # "none" /\ calls[fault.kind] >= fault.nth)
    => outcome = "raised"

\* C20: a pool returned with the level-5 label bmi_relaxed holds no exercise
\* whose title matches a contraindication keyword of the user's injuries.
C20_Level5KeepsInjuryFilter ==
  (pc = "select" /\ frame.fallback_level = "bmi_relaxed") =>
    \A i \in DOMAIN frame.exercises :
      ~RegexSearchI(InjuryKeywords(user_snapshot.injury_types),
                    frame.exercises[i].Title)

\* pool index i comes before j in the stable descending score order
ScoredBefore(i, j) ==
  \/ frame.score[i] > frame.score[j]
  \/ frame.score[i] = frame.score[j] /\ i < j

PoolBodyPart(i) == Lower(frame.exercises[i].BodyPart)

\* the pool indices with fewer than 2 better-scored exercises of their body part
WithinCap ==
  {i \in DOMAIN frame.exercises :
     Cardinality({j \in DOMAIN frame.exercises :
                    ScoredBefore(j, i) /\ PoolBodyPart(j) = PoolBodyPart(i)}) < 2}

\* the position of i among the indices of S, in descending score order
ScoreRank(S, i) == Cardinality({j \in S : ScoredBefore(j, i)}) + 1

\* C13: _score_and_select_exercises selects at most count exercises; the
\* exercises selected under the cap of 2 for a body part come first, in
\* descending score order; the selection holds more than 2 exercises of a
\* body part only if the cap left fewer than count exercises, and then the
\* remaining slots hold the highest-scored exercises not yet selected,
\* whatever their body part.
C13_CappedThenFilled ==
  pc = "selected" =>
    LET pool == frame.exercises
        selected == frame.selected
        count == frame.count
        capped == {i \in WithinCap : ScoreRank(WithinCap, i) <= count}
        rest == DOMAIN pool \ WithinCap
        filled == {i \in rest : ScoreRank(rest, i) <= count - Cardinality(capped)}
    IN  /\ Len(selected) <= count
        /\ Len(selected) = Cardinality(capped) + Cardinality(filled)
        /\ \A i \in capped : selected[ScoreRank(WithinCap, i)] = pool[i]
        /\ \A i \in filled : selected[Cardinality(capped) + ScoreRank(rest, i)] = pool[i]
        /\ (\E i \in DOMAIN selected :
              Cardinality({j \in DOMAIN selected :
                             Lower(selected[j].BodyPart) = Lower(selected[i].BodyPart)}) > 2)
             => Cardinality(WithinCap) < count

\* the cap left fewer than count exercises and the fill completed the selection
C13_Witness ==
  /\ pc = "selected"
  /\ Cardinality(WithinCap) < frame.count
  /\ Len(frame.selected) = frame.count
  /\ \E i \in DOMAIN frame.selected :
       Cardinality({j \in DOMAIN frame.selected :
                      Lower(frame.selected[j].BodyPart)
                        = Lower(frame.selected[i].BodyPart)}) > 2

\* the usage entries of an exercise id in a usage history
UsageEntries(history_coll, exercise_id) ==
  {history_coll[i] : i \in {j \in DOMAIN history_coll :
                              history_coll[j].exercise_id = exercise_id}}

\* ids of the main exercises of all days of the plan
PlanMainIds == UNION {MainIds(plan.days[d]) : d \in DOMAIN plan.days}

\* C16: once the plan is assembled and saved, every main exercise id of the
\* plan has one usage entry, with last_used the generation time and use_count
\* one above its value before the generation (1 if there was no entry); the
\* entries of all other ids are as before, and none exists for the synthetic
\* warmup and cooldown ids.
C16_UsageUpsertedOnce ==
  (pc = "done" /\ outcome = "returned" /\ plan.workout_history_id # 0) =>
    /\ \A id \in PlanMainIds :
         \E e \in UsageEntries(exercise_history_coll, id) :
           /\ UsageEntries(exercise_history_coll, id) = {e}
           /\ e.last_used = now
           /\ IF UsageEntries(before, id) = {}
              THEN e.use_count = 1
              ELSE \E b \in UsageEntries(before, id) : e.use_count = b.use_count + 1
    /\ \A i \in DOMAIN exercise_history_coll :
         exercise_history_coll[i].exercise_id \notin PlanMainIds =>
           /\ exercise_history_coll[i] \in Range(before)
           /\ exercise_history_coll[i].exercise_id
                \notin {"warmup_mobility", "warmup_cardio", "cooldown_stretch"}

\* the documents of a collection stored for a user and week
StoredFor(coll, user_id, week_start_iso) ==
  {i \in DOMAIN coll : /\ coll[i].user_id = user_id
                       /\ coll[i].week_start_iso = week_start_iso}

\* C15: after any sequence of generations and regenerations the persisted
\* plans, those of generated_workouts and those of user_weekly_plans, hold at
\* most one document for a user and week.
C15_OnePlanPerKey ==
  \A coll \in {workouts_coll, user_weekly_plans} :
    \A i, j \in DOMAIN coll :
      (coll[i].user_id = coll[j].user_id /\ coll[i].week_start_iso = coll[j].week_start_iso)
        => i = j

LatestThree(user_id) ==
  {i \in DOMAIN workouts_coll :
     /\ workouts_coll[i].user_id = user_id
     /\ Cardinality({j \in DOMAIN workouts_coll :
                       /\ workouts_coll[j].user_id = user_id
                       /\ workouts_coll[j].generated_at > workouts_coll[i].generated_at}) < 3}

\* the result of the latest check is the Jaccard test on the latest three
SimilarityIsJaccard ==
  similar.checked =>
    LET B == {similar.exercise_ids[i] : i \in DOMAIN similar.exercise_ids}
        Ids(i) == {workouts_coll[i].exercise_ids[k] :
                     k \in DOMAIN workouts_coll[i].exercise_ids}
    IN  /\ similar.result =
             \E i \in LatestThree(similar.user_id) :
               /\ Ids(i) # {}
               /\ Cardinality(Ids(i) \cap B) * similar.threshold.den
                    >= similar.threshold.num * Cardinality(Ids(i) \cup B)
        /\ LatestThree(similar.user_id) = {} => similar.result = FALSE

\* C18: check_workout_similarity returns true exactly when one of the user's
\* 3 most recently stored workouts has a non-empty id set A with
\* |A \cap B| / |A \cup B| >= threshold for the proposed id set B; it returns
\* false when the user has no stored workout; a check writes to no store and
\* changes nothing of a generation.
C18_SimilarityIsJaccardOfLatestThree ==
  /\ []SimilarityIsJaccard
  /\ [][similar' # similar =>
          UNCHANGED <<stores, user_weekly_plans, pc, plan, frame, outcome>>]_vars

\* the check said "too similar" at the default threshold on the strength of
\* the oldest of the 3 latest workouts, an older similar workout being ignored
C18_Witness ==
  /\ similar.checked /\ similar.result
  /\ similar.threshold = [num |-> 7, den |-> 10]
  /\ Len(workouts_coll) = 4
  /\ \A i \in DOMAIN workouts_coll : workouts_coll[i].user_id = "u1"
  /\ workouts_coll[2].exercise_ids = <<"squats", "plank", "lunges">>
  /\ workouts_coll[3].exercise_ids = <<"burpee", "plank">>
  /\ workouts_coll[4].exercise_ids = <<>>

\* both runs have returned
BothRunsDone == earlier.finished /\ pc = "done" /\ outcome = "returned"

\* the duration allocation of a generated day
Allocation(g) ==
  [day |-> g.day, warmup_duration |-> g.warmup_duration,
   main_duration |-> g.main_duration, cooldown_duration |-> g.cooldown_duration,
   main_count |-> g.main_count]

\* the outcome of the safety filter on a day of a plan: the level that
\* supplied the pool, and whether a main exercise of the day has a title
\* matching a safety keyword of the user
FilterOutcome(p, d) ==
  [fallback_level |-> p.fallbacks_used[d],
   unsafe |-> \E i \in DOMAIN p.days[d].main :
                RegexSearchI(UnsafeKeywords, p.days[d].main[i].name)]

\* two runs with the same seed return the same days: the same main exercises
\* with the same sets, reps and rest
SameSeedSameDays ==
  (BothRunsDone /\ earlier.seed = earlier.next_seed) =>
    /\ plan.days = earlier.plan.days
    /\ plan.fallbacks_used = earlier.plan.fallbacks_used

\* two runs allocate the durations of every day alike
SameAllocation ==
  BothRunsDone =>
    /\ Len(generated) = Len(earlier.generated)
    /\ \A k \in DOMAIN generated :
         k \in DOMAIN earlier.generated =>
           Allocation(generated[k]) = Allocation(earlier.generated[k])

\* C11: two runs on the same inputs with the same seed produce the same
\* selected exercises for every day with the same sets, reps and rest; two
\* runs that differ only in the seed produce the same duration allocation and
\* the same safety-filter outcome for every day.
C11_SeedOnlyReorders ==
  /\ SameSeedSameDays
  /\ SameAllocation
  /\ BothRunsDone =>
       \A d \in DOMAIN plan.days :
         FilterOutcome(plan, d) = FilterOutcome(earlier.plan, d)

\* C21: at each of the six cascade levels the returned pool holds no exercise
\* whose id is in the user's 14-day recent-usage list and none whose id was
\* placed on an earlier day of the week, whatever safety keywords the query
\* carries.
C21_PoolExcludesUsedIds ==
  pc = "select" =>
    \A i \in DOMAIN frame.exercises :
      /\ ExerciseId(frame.exercises[i]) \notin Range(RecentExerciseIds)
      /\ ExerciseId(frame.exercises[i]) \notin Range(week_exercise_ids)

\* an exercise the safety rules of a BMI category and of injuries reject
Rejected(exercise, bmi_category, injury_types) ==
  \E keywords \in {Blacklist(bmi_category)}
                    \cup {Contraindicated(injury_types[i]) : i \in DOMAIN injury_types} :
    RegexSearchI(keywords, exercise.Title) \/ RegexSearchI(keywords, exercise.Desc)

\* result is the candidates that are not rejected, in the candidates' order
RECURSIVE KeepsUnrejected(_, _, _, _)
KeepsUnrejected(candidates, result, bmi_category, injury_types) ==
  IF candidates = <<>> THEN result = <<>>
  ELSE IF ~Rejected(Head(candidates), bmi_category, injury_types)
       THEN /\ result # <<>>
            /\ Head(result) = Head(candidates)
            /\ KeepsUnrejected(Tail(candidates), Tail(result), bmi_category, injury_types)
       ELSE KeepsUnrejected(Tail(candidates), result, bmi_category, injury_types)

\* C25: filter_for_safety returns exactly the candidates, in their input
\* order, whose lower-cased title and description hold no blacklist keyword
\* of the BMI category and no contraindication keyword of a listed injury;
\* applied to its own result it returns that result; with one more injury
\* type it returns no exercise it did not return before.
C25_FilterForSafety ==
  pc = "filtered" =>
    /\ KeepsUnrejected(frame.candidates, frame.safe, frame.bmi_category,
                       frame.injury_types)
    /\ frame.again = frame.safe
    /\ Range(frame.with_injury) \subseteq Range(frame.safe)

\* the filter rejected an exercise for its description alone and another for
\* an injury keyword, and kept others
C25_Witness ==
  /\ pc = "filtered"
  /\ frame.safe # <<>>
  /\ \E i \in DOMAIN frame.candidates :
       /\ ~RegexSearchI(Blacklist(frame.bmi_category), frame.candidates[i].Title)
       /\ RegexSearchI(Blacklist(frame.bmi_category), frame.candidates[i].Desc)
  /\ \E i \in DOMAIN frame.candidates :
       /\ RegexSearchI(InjuryKeywords(frame.injury_types), frame.candidates[i].Title)
       /\ frame.candidates[i] \notin Range(frame.safe)
  /\ Len(frame.with_injury) < Len(frame.safe)

\* C22: at level 4 the pool is the set union of the pools queried for the
\* related goals of the user's goal, each exercise at most once.
C22_RelatedGoalsUnion ==
  (pc = "cascaded" /\ frame.fallback_level = "relax_goal") =>
    \A i, j \in DOMAIN frame.exercises :
      frame.exercises[i] = frame.exercises[j] => i = j

\* the upper sets bound the completion rate num/den leads to
AdaptedUpper(hi, rate) ==
  IF rate.num * 10 < 7 * rate.den THEN Max(2, hi - 1)
  ELSE IF rate.num * 100 > 95 * rate.den THEN Min(6, hi + 1)
  ELSE hi

\* C23: for every pair of the sets/reps table and every average completion
\* rate the sets are drawn from [lo, hi'], hi' one below hi (not below 2) for
\* a rate under 0.7, one above (not above 6) for a rate over 0.95 and hi
\* otherwise; lo <= hi', the drawn sets are in 2..6, and the reps are drawn
\* from the interval of the table.
C23_AdaptedSetsInterval ==
  pc = "detailed" =>
    LET table == SETS_REPS_RANGES[frame.fitness_level][frame.goal]
        lo == table.sets[1]
        hi == AdaptedUpper(table.sets[2], frame.user_preferences.avg_completion_rate)
    IN  /\ frame.sets_range = <<lo, hi>>
        /\ lo <= hi
        /\ frame.detail.sets \in lo..hi
        /\ frame.detail.sets \in 2..6
        /\ frame.reps_range = table.reps
        /\ frame.detail.reps \in table.reps[1]..table.reps[2]

\* the widest range at the ceiling: an expert after muscle gain who completes
\* everything draws 6 sets
C23_Witness ==
  /\ pc = "detailed"
  /\ frame.fitness_level = "Expert"
  /\ frame.goal = "muscle_gain"
  /\ frame.logs # <<>>
  /\ frame.user_preferences.avg_completion_rate.num
       = frame.user_preferences.avg_completion_rate.den
  /\ frame.detail.sets = 6

\* sum of the avg_rpe of the logs, in tenths
RECURSIVE RpeSum(_)
RpeSum(logs) == IF logs = <<>> THEN 0 ELSE Head(logs).avg_rpe + RpeSum(Tail(logs))

\* C24: the rest seconds are the table value of the level and rest category,
\* plus 15 when the average RPE of the logged sessions is above 8.5, minus 15
\* (not below 30) when it is below 6.0, unchanged otherwise.
C24_RestFollowsLoggedRpe ==
  pc = "detailed" =>
    LET base == REST_PERIODS[frame.fitness_level][
                  IF frame.goal = "muscle_gain" THEN "hypertrophy"
                  ELSE IF frame.goal = "strength" THEN "strength" ELSE "endurance"]
        n == Len(frame.logs)
        total == RpeSum(frame.logs)
    IN  frame.detail.rest_seconds =
          IF n > 0 /\ total > 85 * n THEN base + 15
          ELSE IF n > 0 /\ total < 60 * n THEN Max(30, base - 15)
          ELSE base

\* C26: on every active day the warmup is two blocks (mobility, cardio) whose
\* durations sum to the day's warmup allocation and the cooldown is one
\* stretch block of the day's cooldown allocation, in one unit of time
\* (minutes, as the allocation is computed, or seconds, as the blocks are
\* labelled).
C26_BlocksSumToAllocation ==
  \A d \in DOMAIN plan.days :
    plan.fallbacks_used[d] \notin {"rest", "error"} =>
      LET warmup == plan.days[d].warmup
          cooldown == plan.days[d].cooldown
      IN  /\ Len(warmup) = 2
          /\ warmup[1].id = "warmup_mobility"
          /\ warmup[2].id = "warmup_cardio"
          /\ Len(cooldown) = 1
          /\ cooldown[1].id = "cooldown_stretch"
          /\ \E unit \in {1, 60} :
               /\ warmup[1].duration_secs + warmup[2].duration_secs
                    = unit * WarmupDuration(TargetDuration(d))
               /\ cooldown[1].duration_secs = unit * CooldownDuration(TargetDuration(d))

\* the duration map asks nothing of day d: no entry, or an entry of 0
NothingRequested(d) == d \notin DOMAIN durations \/ durations[d] = 0

\* the step generate_weekly_plan takes for the next day of the week
DayStep ==
  (pc = "day" /\ day <= NumDays) =>
    IF NothingRequested(day)
    THEN /\ plan'.days = Append(plan.days,
                                [target_duration |-> 0, warmup |-> <<>>, main |-> <<>>,
                                 cooldown |-> <<>>, motivation |-> "rest"])
         /\ plan'.fallbacks_used = Append(plan.fallbacks_used, "rest")
         /\ calls' = calls
         /\ week_exercise_ids' = week_exercise_ids
         /\ generated' = generated
         /\ UNCHANGED stores
         /\ pc' = "day"
    ELSE /\ pc' = "cascade"
         /\ frame'.level = 1
         /\ plan' = plan

\* the days generated so far: those asked for are labelled by the cascade
\* after scoring and volume adaptation, or "error"; the others are "rest"
DaysGenerated ==
  \A d \in DOMAIN plan.days :
    IF NothingRequested(d)
    THEN /\ plan.fallbacks_used[d] = "rest"
         /\ \A i \in DOMAIN generated : generated[i].day # d
    ELSE \/ plan.fallbacks_used[d] = "error"
         \/ /\ \E i \in DOMAIN generated :
                 /\ generated[i].day = d
                 /\ generated[i].fallback_level = plan.fallbacks_used[d]
                 /\ generated[i].exercises # <<>>
            /\ plan.days[d].main # <<>>
            /\ \A i \in DOMAIN plan.days[d].main : plan.days[d].main[i].sets \in 2..6

\* C27: a day with duration 0 or no entry in the duration map becomes a rest
\* day (empty sections, the rest message, label "rest") in a step that issues
\* no store call and leaves the week's used-exercise list alone; every other
\* day enters the cascade and is scored and given its volume.
C27_RestDayNoQuery == []DaysGenerated /\ [][DayStep]_vars

\* a day the map lacks was emitted as a rest day between two generated days
C27_Witness ==
  /\ 2 \notin DOMAIN durations
  /\ Len(plan.days) >= 4
  /\ plan.fallbacks_used[2] = "rest"
  /\ plan.days[1].main # <<>>
  /\ plan.days[4].main # <<>>
  /\ outcome = "running"

\* how often an id occurs in a list
RECURSIVE Occurrences(_, _)
Occurrences(ids, id) ==
  IF ids = <<>> THEN 0
  ELSE (IF Head(ids) = id THEN 1 ELSE 0) + Occurrences(Tail(ids), id)

\* the upserts of an id completed by the writers
RECURSIVE Completed(_, _)
Completed(ws, id) ==
  IF ws = <<>> THEN 0 ELSE Occurrences(Head(ws).done, id) + Completed(Tail(ws), id)

\* the use_count the history held for an id before the writers began
CountBefore(id) ==
  LET entries == SelectSeq(before, LAMBDA r : r.exercise_id = id)
  IN  IF entries = <<>> THEN 0 ELSE entries[1].use_count

\* C28: under any interleaving of generations for the user, every
\* (user, exercise) pair has at most one usage entry, and the entry counts
\* every completed upsert of the exercise: no increment is lost.
C28_OneEntryCountsEveryUse ==
  /\ \A i, j \in DOMAIN exercise_history_coll :
       exercise_history_coll[i].exercise_id = exercise_history_coll[j].exercise_id
         => i = j
  /\ \A i \in DOMAIN exercise_history_coll :
       exercise_history_coll[i].use_count
         = CountBefore(exercise_history_coll[i].exercise_id)
           + Completed(writers, exercise_history_coll[i].exercise_id)

\* C29: for every non-zero requested duration the main duration is not
\* negative and lies in a bucket of the exercise-count table, so the main
\* count is the count of that bucket and not the default of a duration no
\* bucket holds.
C29_MainDurationInBucket ==
  pc = "cascade" =>
    /\ frame.main_duration >= 0
    /\ \E b \in DOMAIN EXERCISE_COUNT_BY_DURATION :
         /\ EXERCISE_COUNT_BY_DURATION[b][1] <= frame.main_duration
         /\ frame.main_duration < EXERCISE_COUNT_BY_DURATION[b][2]
         /\ frame.main_count = EXERCISE_COUNT_BY_DURATION[b][3]

\* C30: a user whose BMI is 35 or more, 100 or more included, is given the
\* category severe_obese, and one whose BMI is below 16 severe_underweight;
\* the day's query carries the keyword blacklist of that category.
C30_ExtremeBmiCategory ==
  pc = "cascade" =>
    LET category == IF user_snapshot.bmi >= 3500 THEN "severe_obese"
                    ELSE IF user_snapshot.bmi < 1600 THEN "severe_underweight"
                    ELSE plan.bmi_category
    IN  /\ plan.bmi_category = category
        /\ user_snapshot.bmi_category = category
        /\ category \in DOMAIN BMI_SAFETY_BLACKLIST_KEYWORDS =>
             /\ frame.query.Title.has_not
             /\ Range(BMI_SAFETY_BLACKLIST_KEYWORDS[category])
                  \subseteq Range(frame.query.Title.regex)
====
